---- MODULE Spec2Model ----
(***************************************************************************)
(* Verification model of the contigo voice engine (apps/voice-engine).     *)
(*                                                                         *)
(* Fourteen specifications share this module:                             *)
(*   Spec          the voice WebSocket handler over the session lifecycle  *)
(*                 manager and the tutor cache of the live conversation;   *)
(*   SpecSessions  the session lifecycle manager called directly;          *)
(*   SpecEndpoints the conversation REST endpoints over that manager;      *)
(*   SpecTutor     the adaptive tutor brain's turn registration and        *)
(*                 cluster trigger;                                        *)
(*   SpecBridge    the platform-to-learner loop of the ElevenLabs bridge   *)
(*                 with soft-beginner activation and graduation;           *)
(*   SpecRelay     the two relay loops of a bridge under start(), with the *)
(*                 background tasks they launch;                           *)
(*   SpecKeepalive the same loops with the keepalive timer and the session *)
(*                 cap of the handler;                                     *)
(*   SpecOrder     the event loop running the turn registrations;          *)
(*   SpecMemory    the SmartMemory client with its cooldown and its mock;  *)
(*   SpecOpus      the local translation model and its load lock;          *)
(*   SpecBootstrap the schema bootstrap run when db_service is imported;   *)
(*   SpecArticles  the weekly article import of the article service;       *)
(*   SpecAnalyses  the per-user article analyses of the article service;   *)
(*   SpecFunctions the functions that depend on their arguments only,      *)
(*                 applied to arguments drawn from bounded sets.           *)
(* Each specification leaves the variables of the others unchanged.        *)
(***************************************************************************)
EXTENDS Integers, Sequences, FiniteSets, TLC

VARIABLES
    \* ---- settings / relational store / session lifecycle manager ----
    secret_configured,  \* settings.VOICE_ENGINE_SECRET is non-empty
    users,              \* ids of the rows of table users
    conversations,      \* table conversations, keyed by primary key id
    summaries,          \* conversation ids having a session_summaries row
    active_sessions,    \* SessionService.active_sessions
    now,                \* value returned by datetime.utcnow()
    \* ---- one voice WebSocket connection (voice_session) ----
    hpc,                \* position of the handler
    h,                  \* its parameters and locals
    ws,                 \* the learner's socket as seen from the server
    connections,        \* connections opened so far
    \* ---- observers of the calls made on the services ----
    rest,               \* the REST call answered last and its response
    svc,                \* the session-manager call run last and its outcome
    fn,                 \* the function applied last on its own, with its result
    \* ---- weekly reading spotlight (article_service) ----
    weekly_articles,    \* table weekly_articles, in insertion order
    importers,          \* the import_article calls in flight, one per request
    imported,           \* the import_article call that ended last
    user_article_analyses, \* table user_article_analyses, in insertion order
    analysts,           \* the get_or_create_analysis calls in flight
    analysed,           \* the get_or_create_analysis call that ended last
    returned,           \* per (article, user): contents returned so far
    generations,        \* per (article, user): generation requests made
    \* ---- adaptive tutor brain (tutor_service) ----
    transcript,         \* redis list transcript:<conversation>
    turn_count,         \* redis counter turn_count:<conversation>
    cluster_results,    \* _cluster_results ring
    last_turn,          \* outcome of the register_*_turn call run last
    \* ---- one ElevenLabsConversationHandler (elevenlabs_service) ----
    user_turn_counter,
    _soft_beginner_activated,
    local_transcript,
    upstream,           \* contextual updates the platform received, in order
    activated_at,       \* Len(upstream) when the mode was last activated
    overlay_failed,     \* the send of that activation raised
    last_event,         \* the platform event handled last
    events,             \* platform events handled so far
    \* ---- the two relay loops of one bridge under start() ----
    redis_client,       \* tutor_service.redis_client is connected (not None)
    is_active,
    loops,              \* state of forward_to_elevenlabs and forward_from_elevenlabs
    caught,             \* the loops that ended in their except Exception handler
    started,            \* how start() ended and what voice_session did then
    tasks,              \* background tasks by kind: pending and failed
    relay_turns,        \* user_turn_counter of this bridge
    relayed,            \* frames relayed to the learner
    relay_events,       \* messages the two loops have handled
    last_relay,         \* the step taken last
    keepalive_task,     \* self.keepalive_task: none, a pending timer, or a finished one
    \* ---- the event loop running the turn registrations of one bridge ----
    received,           \* roles of the turn events received, in order
    ready,              \* tasks created and not yet started, in creation order
    awaiting,           \* register_agent_turn tasks suspended in _analyze_cluster
    turn_buffer,        \* redis list transcript:<conversation> of this bridge
    agent_turns,        \* redis counter turn_count:<conversation> of this bridge
    triggered,          \* per suspended registration, the turn count that triggered it
    recommendations,    \* redis list of adaptive recommendations of the conversation
    insights,           \* _cluster_results[conversation]; <<>> when the key is absent
    state_cleared,      \* clear_conversation_state ran and no turn was registered since
    \* ---- the SmartMemory client (memory_service) ----
    memory,             \* the fields of the MemoryService instance and its clock
    last_memory,        \* the operation run last and what it did
    \* ---- the local translation model (opus_translation_service) ----
    opus,               \* _model_lock, _model, _initialized and counts of loads
    callers,            \* the translate() and initialize() calls in flight
    \* ---- the PostgreSQL bootstrap at import of db_service ----
    bootstrap           \* position of _ensure_note_type_values and the database

storeVars == <<users, conversations, summaries, active_sessions, now>>
handlerVars == <<hpc, h, ws, connections>>
tutorVars == <<transcript, turn_count, cluster_results, last_turn>>
articleVars == <<weekly_articles, importers, imported>>
analysisVars == <<user_article_analyses, analysts, analysed, returned, generations>>
bridgeVars == <<user_turn_counter, _soft_beginner_activated, local_transcript,
                upstream, activated_at, overlay_failed, last_event, events>>
orderVars == <<received, ready, awaiting, turn_buffer, agent_turns, triggered,
               recommendations, insights, state_cleared>>
memoryVars == <<memory, last_memory>>
opusVars == <<opus, callers>>
serviceVars == <<orderVars, memoryVars, opusVars, bootstrap>>
relayVars == <<redis_client, is_active, loops, caught, started, tasks, relay_turns,
               relayed, relay_events, last_relay, keepalive_task>>
vars == <<secret_configured, users, conversations, summaries,
          active_sessions, now, hpc, h, ws, connections, rest, svc, fn,
          weekly_articles, importers, imported,
          user_article_analyses, analysts, analysed, returned, generations,
          transcript, turn_count, cluster_results, last_turn,
          user_turn_counter, _soft_beginner_activated, local_transcript,
          upstream, activated_at, overlay_failed, last_event, events,
          redis_client, is_active, loops, caught, started, tasks, relay_turns,
          relayed, relay_events, last_relay, keepalive_task, serviceVars>>

(***************************************************************************)
(* Bounds and value sets                                                   *)
(***************************************************************************)
MaxConnections == 2
MaxSessionLines == 1

None == "None"
NoTime == -1
UserIds == {"u1", "u2"}
ConvIds == {"c1", "c2"}

\* The subject claim of a token is a string.  A string that spells a UUID
\* names the user and the spelling; str(uuid) is always the canonical
\* (lower-case, hyphenated) spelling.  Two more subjects: the claim is
\* missing, or it is a string that is no UUID.
Subjects == [uuid : UserIds, spelling : {"canonical", "upper"}]
MissingSub == [uuid |-> None, spelling |-> "missing"]
NotAUuid == [uuid |-> None, spelling |-> "not-a-uuid"]
UuidStr(user_id) == [uuid |-> user_id, spelling |-> "canonical"]
IsUuidString(s) == s \in Subjects
ParseUuid(s) == s.uuid

\* Close code "Policy Violation" used by the handler.
PolicyViolation == 1008

NoRow == [absent |-> TRUE]
NoSession == [absent |-> TRUE]

Difficulties == {"beginner", "advanced"}

(***************************************************************************)
(* Authentication gateway                                                  *)
(***************************************************************************)
\* A token, by what jwt.decode looks at.  The tokens tried have at most
\* one defect of signature, expiry, issuer and audience, with any subject.
Defects(token) ==
    (IF token.sig # "ok" THEN 1 ELSE 0) + (IF token.expired THEN 1 ELSE 0)
    + (IF ~token.iss_ok THEN 1 ELSE 0) + (IF ~token.aud_ok THEN 1 ELSE 0)

Tokens ==
    {token \in [sig : {"ok", "bad"}, expired : BOOLEAN, iss_ok : BOOLEAN,
                aud_ok : BOOLEAN,
                sub : {UuidStr(u) : u \in UserIds} \cup {MissingSub, NotAUuid}] :
        Defects(token) <= 1}

\* The session_id query parameter: an id, absent, or a string that is no UUID.
SessionIds == ConvIds \cup {None, "not-a-uuid"}

NoToken == [sig |-> "none", expired |-> FALSE, iss_ok |-> FALSE,
            aud_ok |-> FALSE, sub |-> MissingSub]

AuthOk(user) == [ok |-> TRUE, user_id |-> user, reason |-> ""]
AuthErr(msg) == [ok |-> FALSE, user_id |-> MissingSub, reason |-> msg]

\* Variant of validate_ws_token that does not look for the subject claim.
validate_ws_token_any_subject(token) ==
    IF ~secret_configured THEN AuthErr("VOICE_ENGINE_SECRET not configured")
    ELSE IF token.sig # "ok" THEN AuthErr("Invalid token")
    ELSE IF token.expired THEN AuthErr("Token has expired")
    ELSE IF ~token.iss_ok \/ ~token.aud_ok THEN AuthErr("Invalid token")
    ELSE AuthOk(token.sub)

\* validate_ws_token: the subject, or the ValueError raised.
validate_ws_token(token) ==
    IF ~secret_configured THEN AuthErr("VOICE_ENGINE_SECRET not configured")
    ELSE IF token.sig # "ok" THEN AuthErr("Invalid token")
    ELSE IF token.expired THEN AuthErr("Token has expired")
    ELSE IF ~token.iss_ok \/ ~token.aud_ok THEN AuthErr("Invalid token")
    ELSE IF token.sub = MissingSub THEN AuthErr("Token missing subject")
    ELSE AuthOk(token.sub)

\* _validate_user_id: uuid.UUID(user_id), ValueError when it does not parse.
ValidUserId(user_id) == IsUuidString(user_id)

(***************************************************************************)
(* Session lifecycle manager                                               *)
(***************************************************************************)
Row(user_id, start, agent_name, language, difficulty, adaptive, topic) ==
    [user_id |-> user_id, start_time |-> start, end_time |-> NoTime,
     agent_display_name |-> agent_name, language |-> language,
     difficulty |-> difficulty, adaptive |-> adaptive, topic |-> topic]

VoiceSession(cid, user_id, agent_name, language, start) ==
    [conversation_id |-> cid, user_id |-> user_id, agent_name |-> agent_name,
     language |-> language, status |-> "active", start_time |-> start]

\* custom_context as the service reads it: difficulty and topic (None when
\* the key is missing or null), adaptive ("true", "false" or None).
Context(difficulty, adaptive, topic) ==
    [difficulty |-> difficulty, adaptive |-> adaptive, topic |-> topic]

\* The committed tables and the in-process map, as one value.
Store == [users |-> users, conversations |-> conversations,
          active_sessions |-> active_sessions]

\* Ids uuid.uuid4() can return: any id no row uses yet.
FreshIds == {c \in ConvIds : conversations[c] = NoRow}

\* uuid4() is called exactly when no usable conversation id was supplied;
\* fresh is None when it is not called.
DrawsFresh(conversation_id, fresh) == (fresh # None) <=> (conversation_id \notin ConvIds)

\* Variant: a session on an existing row starts now.
resolved_start_now(db_conversation, t) == t
\* resolved_start = db_conversation.start_time or resolved_start
resolved_start_of(db_conversation, t) ==
    IF db_conversation.start_time # NoTime THEN db_conversation.start_time ELSE t

\* create_session at time t.  fresh is the id uuid4() returns when
\* conversation_id is absent or not a UUID.  The result carries the store
\* after the call and the id of the returned session; raised = TRUE is the
\* IntegrityError of the INSERT when the primary key is taken (nothing is
\* committed then, the placeholder user included).
create_session(store, t, user_id, agent_name, language, ctx, conversation_id, fresh) ==
    LET resolved_id == IF conversation_id \in ConvIds THEN conversation_id ELSE fresh
        found == store.conversations[resolved_id]
        db_conversation == IF found # NoRow /\ found.user_id # user_id THEN NoRow ELSE found
    IN  IF db_conversation # NoRow
        THEN LET resolved_start == resolved_start_of(db_conversation, t)
                 merged == [db_conversation EXCEPT
                     !.agent_display_name = agent_name,
                     !.language = language,
                     !.difficulty = IF ctx.difficulty # None THEN ctx.difficulty ELSE @,
                     !.adaptive = IF ctx.adaptive # None THEN ctx.adaptive = "true" ELSE @,
                     !.topic = IF ctx.topic # None THEN ctx.topic ELSE @]
                 session == VoiceSession(resolved_id, user_id, agent_name, language, resolved_start)
             IN  [raised |-> FALSE, session |-> resolved_id,
                  store |-> [users |-> store.users \cup {user_id},
                             conversations |-> [store.conversations EXCEPT ![resolved_id] = merged],
                             active_sessions |-> [store.active_sessions EXCEPT ![resolved_id] = session]]]
        ELSE IF found # NoRow
        THEN [raised |-> TRUE, session |-> None, store |-> store]
        ELSE LET row == Row(user_id, t, agent_name, language, ctx.difficulty,
                            ctx.adaptive = "true", ctx.topic)
                 session == VoiceSession(resolved_id, user_id, agent_name, language, t)
             IN  [raised |-> FALSE, session |-> resolved_id,
                  store |-> [users |-> store.users \cup {user_id},
                             conversations |-> [store.conversations EXCEPT ![resolved_id] = row],
                             active_sessions |-> [store.active_sessions EXCEPT ![resolved_id] = session]]]

\* end_session at time t: the store after the call.
end_session(store, t, conversation_id) ==
    IF store.active_sessions[conversation_id] # NoSession
    THEN [store EXCEPT
            !.conversations = IF @[conversation_id] # NoRow
                              THEN [@ EXCEPT ![conversation_id].end_time = t]
                              ELSE @,
            !.active_sessions = [@ EXCEPT ![conversation_id] = NoSession]]
    ELSE store

(***************************************************************************)
(* Adaptive tutor brain                                                    *)
(***************************************************************************)
\* CLUSTER_SIZE = max(2, settings.TURN_ANALYSIS_CLUSTER_SIZE), default 4.
CLUSTER_SIZE == 4

\* Utterance texts are positive numbers; the empty string is 0 and Python's
\* None, for a text, is -1.
EmptyText == 0
NoText == -1

\* A buffered line f"{role}: {text}".  item.split(":", 1) gives back the
\* role, because the role never holds a colon, and the text, stripped.
Line(role, text) == [role |-> role, text |-> text]
Exchange(user_text, agent_text) == [user_text |-> user_text, agent_text |-> agent_text]

\* redis LRANGE key -n -1
LastN(seq, n) ==
    IF Len(seq) <= n THEN seq ELSE SubSeq(seq, Len(seq) - n + 1, Len(seq))

\* The loop of _parse_transcript_from_redis from item i on; temp is
\* temp_user_text.
RECURSIVE ParseFrom(_, _, _, _)
ParseFrom(history, i, temp, exchanges) ==
    IF i > Len(history)
    THEN IF temp # NoText THEN Append(exchanges, Exchange(temp, EmptyText)) ELSE exchanges
    ELSE IF history[i].role = "Learner"
         THEN ParseFrom(history, i + 1, history[i].text,
                        IF temp # NoText
                        THEN Append(exchanges, Exchange(temp, EmptyText))
                        ELSE exchanges)
         ELSE IF temp # NoText
              THEN ParseFrom(history, i + 1, NoText,
                             Append(exchanges, Exchange(temp, history[i].text)))
              ELSE ParseFrom(history, i + 1, NoText, exchanges)

_parse_transcript_from_redis(history) == ParseFrom(history, 1, NoText, <<>>)

\* register_user_turn: the buffer after the call (text is already stripped).
register_user_turn(buffer, user_text) ==
    IF user_text = EmptyText THEN buffer
    ELSE Append(buffer, Line("Learner", user_text))

\* Variant of register_agent_turn that analyses on every CLUSTER_SIZE-th
\* turn, however many exchanges the window holds.
register_agent_turn_every_cluster(buffer, count, agent_text) ==
    IF agent_text = EmptyText
    THEN [transcript |-> buffer, turn_count |-> count, registered |-> FALSE,
          analysed |-> FALSE, cluster |-> <<>>]
    ELSE LET pushed == Append(buffer, Line("Tutor", agent_text))
             k == count + 1
             cluster_slice == _parse_transcript_from_redis(LastN(pushed, CLUSTER_SIZE * 2))
             run == k % CLUSTER_SIZE = 0
         IN  [transcript |-> pushed, turn_count |-> k, registered |-> TRUE,
              analysed |-> run,
              cluster |-> IF run THEN LastN(cluster_slice, CLUSTER_SIZE) ELSE <<>>]

\* register_agent_turn up to the call of _analyze_cluster: the buffer and
\* the counter after the call, whether _analyze_cluster is called and with
\* which cluster.
register_agent_turn(buffer, count, agent_text) ==
    IF agent_text = EmptyText
    THEN [transcript |-> buffer, turn_count |-> count, registered |-> FALSE,
          analysed |-> FALSE, cluster |-> <<>>]
    ELSE LET pushed == Append(buffer, Line("Tutor", agent_text))
             k == count + 1
             history_list == LastN(pushed, CLUSTER_SIZE * 2)
             cluster_slice == _parse_transcript_from_redis(history_list)
             run == k % CLUSTER_SIZE = 0 /\ Len(cluster_slice) >= CLUSTER_SIZE
         IN  [transcript |-> pushed, turn_count |-> k, registered |-> TRUE,
              analysed |-> run,
              cluster |-> IF run THEN LastN(cluster_slice, CLUSTER_SIZE) ELSE <<>>]

\* The insight ring after one more insight (at most 5 are kept).
PushInsight(ring, insight) == LastN(Append(ring, insight), 5)

NoTurn == [op |-> "none", conversation |-> None, k |-> 0, registered |-> FALSE,
           analysed |-> FALSE, cluster |-> <<>>]

(***************************************************************************)
(* Voice WebSocket handler (voice_session)                                 *)
(***************************************************************************)
\* frames: the frames the learner received; lost: those whose send raised.
NoSocket == [accepted |-> FALSE, close_code |-> 0, frames |-> <<>>, lost |-> <<>>]

EmptyStore == [users |-> {}, conversations |-> [c \in ConvIds |-> NoRow],
               active_sessions |-> [c \in ConvIds |-> NoSession]]

IdleHandler ==
    [token |-> NoToken, user |-> MissingSub, before |-> EmptyStore,
     session |-> None, conversation |-> FALSE, local_entries |-> 0,
     exit |-> "none"]

\* get_agent: the persona's display name.
AgentName(difficulty, adaptive) ==
    IF adaptive THEN <<"Spanish Tutor", difficulty>> ELSE <<"Spanish Tutor">>

\* A frame is sent on the learner's socket; a send that raises delivers
\* nothing.
Sent(socket, frame, delivered) ==
    IF delivered THEN [socket EXCEPT !.frames = Append(@, frame)]
    ELSE [socket EXCEPT !.lost = Append(@, frame)]

\* _handle_session_error: end_session when a session exists (the error
\* frame is best effort).
HandleSessionError(store, t, session) ==
    IF session # None THEN end_session(store, t, session) ELSE store

\* The finally block: a summary row is written when the bridge and the
\* session exist, the bridge holds local artifacts and generation succeeds.
FinallySummary(hh, generated) ==
    IF hh.conversation /\ hh.session # None /\ hh.local_entries > 0 /\ generated
    THEN summaries \cup {hh.session}
    ELSE summaries

Commit(store) ==
    /\ users' = store.users
    /\ conversations' = store.conversations
    /\ active_sessions' = store.active_sessions

\* A client connects with a token validate_ws_token refuses: the socket is
\* closed before it is accepted and the handler returns.  h.before keeps the
\* tables as the connection found them.
WsRejected(token) ==
    /\ hpc = "idle"
    /\ connections < MaxConnections
    /\ ~validate_ws_token(token).ok
    /\ connections' = connections + 1
    /\ ws' = [NoSocket EXCEPT !.close_code = PolicyViolation]
    /\ h' = [IdleHandler EXCEPT !.token = token, !.before = Store,
                                !.exit = "auth_rejected"]
    /\ hpc' = "done"
    /\ UNCHANGED <<secret_configured, serviceVars, relayVars, fn, analysisVars, articleVars, users, conversations, summaries,
                   active_sessions, now, rest, svc, tutorVars, bridgeVars>>

\* A client connects with a token validate_ws_token lets through: the
\* handler runs from accept until it returns or awaits conversation.start().
\*   prep         "ok", or what stops the handler before create_session:
\*                "error" (context collection or agent selection raises) or
\*                "agent_invalid" (the selected agent is not configured)
\*   notify       what sending session_created does
\*   delivered    whether a best-effort error frame reaches the learner
WsConnect(token, session_id, difficulty, adaptive, fresh, prep, notify, delivered) ==
    /\ hpc = "idle"
    /\ connections < MaxConnections
    /\ validate_ws_token(token).ok
    /\ DrawsFresh(session_id, fresh)
    /\ connections' = connections + 1
    /\ now' = IF ValidUserId(validate_ws_token(token).user_id) /\ prep = "ok"
              THEN now + 1 ELSE now
    /\ UNCHANGED <<secret_configured, serviceVars, relayVars, fn, analysisVars, articleVars, summaries, rest, svc, tutorVars, bridgeVars>>
    /\ LET auth == validate_ws_token(token)
           accepted == [NoSocket EXCEPT !.accepted = TRUE]
           h1 == [IdleHandler EXCEPT !.token = token, !.before = Store,
                                     !.user = auth.user_id]
       IN  IF ~ValidUserId(auth.user_id)
           THEN \* except ValueError
                /\ ws' = [accepted EXCEPT !.close_code = PolicyViolation]
                /\ h' = [h1 EXCEPT !.exit = "invalid_user_id"]
                /\ hpc' = "done"
                /\ Commit(Store)
           ELSE IF prep = "error"
           THEN \* except Exception, no session yet
                /\ ws' = Sent(accepted, "error", delivered)
                /\ h' = [h1 EXCEPT !.exit = "error"]
                /\ hpc' = "done"
                /\ Commit(HandleSessionError(Store, now, None))
           ELSE IF prep = "agent_invalid"
           THEN \* _validate_and_notify_agent
                /\ ws' = [Sent(accepted, "error", TRUE) EXCEPT !.close_code = PolicyViolation]
                /\ h' = [h1 EXCEPT !.exit = "agent_invalid"]
                /\ hpc' = "done"
                /\ Commit(Store)
           ELSE LET created == create_session(
                        Store, now, ParseUuid(auth.user_id),
                        AgentName(difficulty, adaptive), "es",
                        Context(difficulty, IF adaptive THEN "true" ELSE "false", None),
                        session_id, fresh)
                    h2 == [h1 EXCEPT !.session = created.session]
                IN  IF created.raised
                    THEN \* except Exception, session is still None
                         /\ ws' = Sent(accepted, "error", delivered)
                         /\ h' = [h1 EXCEPT !.exit = "error"]
                         /\ hpc' = "done"
                         /\ Commit(HandleSessionError(created.store, now, None))
                    ELSE IF notify = "ok"
                    THEN /\ ws' = Sent(accepted, "session_created", TRUE)
                         /\ h' = [h2 EXCEPT !.conversation = TRUE]
                         /\ hpc' = "running"
                         /\ Commit(created.store)
                    ELSE IF notify = "disconnect"
                    THEN \* except WebSocketDisconnect
                         /\ ws' = accepted
                         /\ h' = [h2 EXCEPT !.exit = "disconnect"]
                         /\ hpc' = "done"
                         /\ Commit(end_session(created.store, now, created.session))
                    ELSE \* except Exception
                         /\ ws' = Sent(accepted, "error", delivered)
                         /\ h' = [h2 EXCEPT !.exit = "error"]
                         /\ hpc' = "done"
                         /\ Commit(HandleSessionError(created.store, now, created.session))

\* The bridge relays a learner transcript while start() runs: the local
\* transcript grows and the register_user_turn task buffers the line.
RelayUserTurn ==
    /\ hpc = "running"
    /\ Len(transcript[h.session]) < MaxSessionLines
    /\ h' = [h EXCEPT !.local_entries = @ + 1]
    /\ transcript' = [transcript EXCEPT ![h.session] =
                        register_user_turn(@, Len(@) + 1)]
    /\ UNCHANGED <<secret_configured, serviceVars, relayVars, fn, analysisVars, articleVars, users, conversations, summaries,
                   active_sessions, now, hpc, ws, connections, rest, svc,
                   turn_count, cluster_results, last_turn, bridgeVars>>

\* The bridge relays a tutor response while start() runs.
RelayAgentTurn ==
    /\ hpc = "running"
    /\ Len(transcript[h.session]) < MaxSessionLines
    /\ LET c == h.session
           out == register_agent_turn(transcript[c], turn_count[c], Len(transcript[c]) + 1)
       IN  /\ transcript' = [transcript EXCEPT ![c] = out.transcript]
           /\ turn_count' = [turn_count EXCEPT ![c] = out.turn_count]
           /\ cluster_results' =
                 IF out.analysed
                 THEN [cluster_results EXCEPT ![c] = PushInsight(@, out.turn_count)]
                 ELSE cluster_results
    /\ h' = [h EXCEPT !.local_entries = @ + 1]
    /\ UNCHANGED <<secret_configured, serviceVars, relayVars, fn, analysisVars, articleVars, users, conversations, summaries,
                   active_sessions, now, hpc, ws, connections, rest, svc,
                   last_turn, bridgeVars>>

\* conversation.start() raises before the relay loops run (no signed URL,
\* the upstream connection fails): except Exception, then finally.
StartRaises(delivered) ==
    /\ hpc = "running"
    /\ h.local_entries = 0
    /\ ws' = Sent(ws, "error", delivered)
    /\ Commit(HandleSessionError(Store, now, h.session))
    /\ summaries' = FinallySummary(h, TRUE)
    /\ h' = [h EXCEPT !.exit = "error"]
    /\ hpc' = "done"
    /\ UNCHANGED <<secret_configured, serviceVars, relayVars, fn, analysisVars, articleVars, now, connections, rest, svc, tutorVars, bridgeVars>>

BridgeExits == {"learner_end", "upstream_closed", "learner_disconnect", "loop_error"}

\* conversation.start() returns: one relay loop ended (the learner sent
\* end, the upstream socket closed, the learner's socket failed, or a loop
\* caught an error) and the other was cancelled.  Then finally.
BridgeReturns(reason, generated) ==
    /\ hpc = "running"
    /\ summaries' = FinallySummary(h, generated)
    /\ h' = [h EXCEPT !.exit = reason]
    /\ hpc' = "done"
    /\ UNCHANGED <<secret_configured, serviceVars, relayVars, fn, analysisVars, articleVars, users, conversations, active_sessions,
                   now, ws, connections, rest, svc, tutorVars, bridgeVars>>

\* MAX_SESSION_MINUTES elapse while start() runs: asyncio.TimeoutError,
\* best-effort session_timeout frame, then finally.
SessionTimeout(delivered, generated) ==
    /\ hpc = "running"
    /\ ws' = Sent(ws, "session_timeout", delivered)
    /\ summaries' = FinallySummary(h, generated)
    /\ h' = [h EXCEPT !.exit = "timeout"]
    /\ hpc' = "done"
    /\ UNCHANGED <<secret_configured, serviceVars, relayVars, fn, analysisVars, articleVars, users, conversations, active_sessions,
                   now, connections, rest, svc, tutorVars, bridgeVars>>

\* The connection is over; the next client may connect.
WsReset ==
    /\ hpc = "done"
    /\ hpc' = "idle"
    /\ h' = IdleHandler
    /\ ws' = NoSocket
    /\ UNCHANGED <<secret_configured, serviceVars, relayVars, fn, analysisVars, articleVars, users, conversations, summaries,
                   active_sessions, now, connections, rest, svc, tutorVars, bridgeVars>>

(***************************************************************************)
(* Conversation REST endpoints                                             *)
(***************************************************************************)
NoBody == [absent |-> TRUE]
Response(status, body) == [status |-> status, body |-> body]
Body(kind, conversation_id, row) ==
    [kind |-> kind, conversation_id |-> conversation_id, user_id |-> row.user_id,
     start_time |-> row.start_time]

\* Path parameters: the ids, and a string that is no UUID.
PathIds == ConvIds \cup {"not-a-uuid"}
\* Callers require_auth lets through: any non-empty subject.
Callers == Subjects \cup {NotAUuid}

get_conversation(conversation_id, auth_user_id) ==
    IF conversation_id \notin ConvIds THEN Response(400, NoBody)
    ELSE IF conversations[conversation_id] = NoRow THEN Response(404, NoBody)
    ELSE IF UuidStr(conversations[conversation_id].user_id) # auth_user_id
    THEN Response(403, NoBody)
    ELSE Response(200, Body("detail", conversation_id, conversations[conversation_id]))

\* Variant of get_conversation_summary without the ownership check.
get_conversation_summary_any_caller(conversation_id, auth_user_id) ==
    IF conversation_id \notin ConvIds THEN Response(400, NoBody)
    ELSE IF conversations[conversation_id] = NoRow THEN Response(404, NoBody)
    ELSE IF conversation_id \notin summaries
    THEN IF conversations[conversation_id].end_time = NoTime
         THEN Response(202, NoBody)
         ELSE Response(404, NoBody)
    ELSE Response(200, Body("summary", conversation_id, conversations[conversation_id]))

get_conversation_summary(conversation_id, auth_user_id) ==
    IF conversation_id \notin ConvIds THEN Response(400, NoBody)
    ELSE IF conversations[conversation_id] = NoRow THEN Response(404, NoBody)
    ELSE IF UuidStr(conversations[conversation_id].user_id) # auth_user_id
    THEN Response(403, NoBody)
    ELSE IF conversation_id \notin summaries
    THEN IF conversations[conversation_id].end_time = NoTime
         THEN Response(202, NoBody)
         ELSE Response(404, NoBody)
    ELSE Response(200, Body("summary", conversation_id, conversations[conversation_id]))

get_conversation_analysis(conversation_id, auth_user_id) ==
    IF conversation_id \notin ConvIds THEN Response(400, NoBody)
    ELSE IF conversations[conversation_id] = NoRow THEN Response(404, NoBody)
    ELSE IF UuidStr(conversations[conversation_id].user_id) # auth_user_id
    THEN Response(403, NoBody)
    ELSE Response(200, Body("analysis", conversation_id, conversations[conversation_id]))

NoCall == [endpoint |-> "none", caller |-> NotAUuid, conversation_id |-> None,
           owner |-> None, response |-> Response(0, NoBody)]

Answered(endpoint, conversation_id, auth_user_id, response) ==
    /\ rest' = [endpoint |-> endpoint, caller |-> auth_user_id,
                conversation_id |-> conversation_id,
                owner |-> IF conversation_id \in ConvIds /\ conversations[conversation_id] # NoRow
                          THEN conversations[conversation_id].user_id ELSE None,
                response |-> response]
    /\ UNCHANGED <<secret_configured, serviceVars, relayVars, fn, analysisVars, articleVars, users, conversations, summaries,
                   active_sessions, now, hpc, h, ws, connections, svc,
                   tutorVars, bridgeVars>>

GetConversation(conversation_id, auth_user_id) ==
    Answered("detail", conversation_id, auth_user_id,
             get_conversation(conversation_id, auth_user_id))

GetConversationSummary(conversation_id, auth_user_id) ==
    Answered("summary", conversation_id, auth_user_id,
             get_conversation_summary(conversation_id, auth_user_id))

GetConversationAnalysis(conversation_id, auth_user_id) ==
    Answered("analysis", conversation_id, auth_user_id,
             get_conversation_analysis(conversation_id, auth_user_id))

(***************************************************************************)
(* The session lifecycle manager called directly                           *)
(***************************************************************************)
MaxServiceCalls == 3

NoServiceCall == [op |-> "none", user_id |-> None, conversation_id |-> None,
                  raised |-> FALSE, session |-> None,
                  before |-> [c \in ConvIds |-> NoRow],
                  agent_name |-> <<>>, ctx |-> Context(None, None, None)]

\* session_service.create_session(user_id, ..., custom_context, conversation_id)
CreateSession(user_id, conversation_id, difficulty, adaptive, fresh) ==
    /\ now < MaxServiceCalls
    /\ DrawsFresh(conversation_id, fresh)
    /\ LET created == create_session(
                Store, now, user_id, AgentName(difficulty, adaptive = "true"), "es",
                Context(difficulty, adaptive, None), conversation_id, fresh)
       IN  /\ Commit(created.store)
           /\ svc' = [op |-> "create_session", user_id |-> user_id,
                      conversation_id |-> conversation_id,
                      raised |-> created.raised, session |-> created.session,
                      before |-> conversations,
                      agent_name |-> AgentName(difficulty, adaptive = "true"),
                      ctx |-> Context(difficulty, adaptive, None)]
    /\ now' = now + 1
    /\ UNCHANGED <<secret_configured, serviceVars, relayVars, fn, analysisVars, articleVars, summaries, handlerVars, rest, tutorVars,
                   bridgeVars>>

\* session_service.end_session(conversation_id)
EndSession(conversation_id) ==
    /\ now < MaxServiceCalls
    /\ Commit(end_session(Store, now, conversation_id))
    /\ svc' = [op |-> "end_session", user_id |-> None,
               conversation_id |-> conversation_id, raised |-> FALSE,
               session |-> None, before |-> conversations,
               agent_name |-> <<>>, ctx |-> Context(None, None, None)]
    /\ now' = now + 1
    /\ UNCHANGED <<secret_configured, serviceVars, relayVars, fn, analysisVars, articleVars, summaries, handlerVars, rest, tutorVars,
                   bridgeVars>>

\* generate_session_summary persists the summary row of a conversation.
StoreSummary(conversation_id) ==
    /\ conversations[conversation_id] # NoRow
    /\ conversation_id \notin summaries
    /\ summaries' = summaries \cup {conversation_id}
    /\ UNCHANGED <<secret_configured, serviceVars, relayVars, fn, analysisVars, articleVars, users, conversations, active_sessions, now,
                   handlerVars, rest, svc, tutorVars, bridgeVars>>

(***************************************************************************)
(* The tutor brain called directly, on one conversation                    *)
(***************************************************************************)
MaxTutorLines == 16
TutorConversation == "c1"

\* The text of the next utterance: texts are numbered as they are buffered.
NextText == Len(transcript[TutorConversation]) + 1

RegisterUserTurn(user_text) ==
    /\ Len(transcript[TutorConversation]) < MaxTutorLines
    /\ transcript' = [transcript EXCEPT ![TutorConversation] =
                        register_user_turn(@, user_text)]
    /\ last_turn' = [NoTurn EXCEPT !.op = "user", !.conversation = TutorConversation,
                                   !.k = turn_count[TutorConversation],
                                   !.registered = user_text # EmptyText]
    /\ UNCHANGED <<secret_configured, serviceVars, relayVars, fn, analysisVars, articleVars, storeVars, handlerVars, rest, svc,
                   turn_count, cluster_results, bridgeVars>>

\* register_agent_turn; _analyze_cluster stores its insight in the ring
\* before the call returns.
RegisterAgentTurn(agent_text) ==
    /\ Len(transcript[TutorConversation]) < MaxTutorLines
    /\ LET c == TutorConversation
           out == register_agent_turn(transcript[c], turn_count[c], agent_text)
       IN  /\ transcript' = [transcript EXCEPT ![c] = out.transcript]
           /\ turn_count' = [turn_count EXCEPT ![c] = out.turn_count]
           /\ cluster_results' =
                 IF out.analysed
                 THEN [cluster_results EXCEPT ![c] = PushInsight(@, out.turn_count)]
                 ELSE cluster_results
           /\ last_turn' = [op |-> "agent", conversation |-> c, k |-> out.turn_count,
                            registered |-> out.registered, analysed |-> out.analysed,
                            cluster |-> out.cluster]
    /\ UNCHANGED <<secret_configured, serviceVars, relayVars, fn, analysisVars, articleVars, storeVars, handlerVars, rest, svc, bridgeVars>>

(***************************************************************************)
(* ElevenLabs bridge: the platform-to-learner loop                         *)
(***************************************************************************)
SOFT_BEGINNER_TURN_THRESHOLD == 4
SOFT_BEGINNER_GRADUATION_MIN_TURNS == 8
\* local_transcript[-8:] in _consider_soft_beginner_graduation
GraduationWindow == 8
\* recent_transcripts[-4:] and the confidence_count needed
ConfidenceSpan == 4
ConfidenceNeeded == 3

MaxEvents == 9

\* An utterance, by what the detectors look at: its number of words, the
\* English marker it holds (one at most, in the utterances tried), whether it
\* is one of the minimal answers "si", "no", "hola", ... and whether it holds
\* "..." or "[silence]".
Utterance(words, marker, minimal, silence) ==
    [words |-> words, marker |-> marker, minimal |-> minimal, silence |-> silence]

StruggleMarkers == {"i don't", "what", "sorry", "help", "english", "understand",
                    "repeat", "confused", "slower"}
ConfidenceMarkers == {"i don't", "what", "help", "english", "understand"}

Si == Utterance(1, "none", TRUE, FALSE)                \* "si"
Fluent == Utterance(4, "none", FALSE, FALSE)           \* "yo quiero aprender mas"
Confused == Utterance(5, "what", FALSE, FALSE)         \* "what does that word mean"
LearnerUtterances == {Si, Fluent}
TutorUtterances == {Utterance(3, "none", FALSE, FALSE)}

Entry(role, text) == [agent |-> role, content |-> text]

\* Variant of _detect_early_struggle without the turn threshold.
_detect_early_struggle_any_turn(counter, text) ==
    \/ text.words < 2
    \/ text.marker \in StruggleMarkers
    \/ text.minimal
    \/ text.silence

_detect_early_struggle(counter, text) ==
    IF counter > SOFT_BEGINNER_TURN_THRESHOLD THEN FALSE
    ELSE \/ text.words < 2
         \/ text.marker \in StruggleMarkers
         \/ text.minimal
         \/ text.silence

\* Variant of _activate_soft_beginner_mode without the early return.
_activate_soft_beginner_mode_again(activated, sent, send_ok) ==
    [activated |-> TRUE,
     upstream |-> IF send_ok THEN Append(sent, "overlay") ELSE sent]

\* _activate_soft_beginner_mode: the flag and the updates the platform has
\* received after the call; send_ok = FALSE is a send that raises.
_activate_soft_beginner_mode(activated, sent, send_ok) ==
    IF activated THEN [activated |-> TRUE, upstream |-> sent]
    ELSE [activated |-> TRUE,
          upstream |-> IF send_ok THEN Append(sent, "overlay") ELSE sent]

Confident(text) == text.words >= 4 /\ text.marker \notin ConfidenceMarkers

_detect_beginner_confidence(recent_transcripts) ==
    IF Len(recent_transcripts) < ConfidenceSpan THEN FALSE
    ELSE LET last == LastN(recent_transcripts, ConfidenceSpan)
         IN  Cardinality({i \in 1..Len(last) : Confident(last[i])}) >= ConfidenceNeeded

\* The contents of the entries of one role, in order.
RECURSIVE ContentsOf(_, _)
ContentsOf(entries, role) ==
    IF entries = <<>> THEN <<>>
    ELSE IF Head(entries).agent = role
         THEN <<Head(entries).content>> \o ContentsOf(Tail(entries), role)
         ELSE ContentsOf(Tail(entries), role)

\* _consider_soft_beginner_graduation: the flag and the updates the platform
\* has received after the call.
_consider_soft_beginner_graduation(activated, counter, entries, sent, send_ok) ==
    IF ~activated THEN [activated |-> activated, upstream |-> sent]
    ELSE IF counter < SOFT_BEGINNER_GRADUATION_MIN_TURNS
    THEN [activated |-> activated, upstream |-> sent]
    ELSE LET user_transcripts ==
                 LastN(ContentsOf(LastN(entries, GraduationWindow), "user"), ConfidenceSpan)
         IN  IF _detect_beginner_confidence(user_transcripts)
             THEN [activated |-> FALSE,
                   upstream |-> IF send_ok THEN Append(sent, "graduated") ELSE sent]
             ELSE [activated |-> activated, upstream |-> sent]

NoEvent == [kind |-> "none", struggle |-> FALSE, was_active |-> FALSE,
            graduated |-> FALSE]

\* forward_from_elevenlabs handles a user_transcript event with a text that
\* is not blank.  overlay_ok and graduation_ok say whether the sends of the
\* two contextual updates succeed.  The tasks it creates for the tutor brain
\* run on their own: they are the actions of SpecTutor.
UserTranscript(text, overlay_ok, graduation_ok) ==
    /\ events < MaxEvents
    /\ events' = events + 1
    /\ LET counter == user_turn_counter + 1
           entries == Append(local_transcript, Entry("user", text))
           struggle == /\ counter <= SOFT_BEGINNER_TURN_THRESHOLD
                       /\ _detect_early_struggle(counter, text)
           a == IF struggle
                THEN _activate_soft_beginner_mode(_soft_beginner_activated,
                                                  upstream, overlay_ok)
                ELSE [activated |-> _soft_beginner_activated, upstream |-> upstream]
           starts == struggle /\ ~_soft_beginner_activated
           g == IF a.activated
                THEN _consider_soft_beginner_graduation(a.activated, counter, entries,
                                                        a.upstream, graduation_ok)
                ELSE a
       IN  /\ user_turn_counter' = counter
           /\ local_transcript' = entries
           /\ _soft_beginner_activated' = g.activated
           /\ upstream' = g.upstream
           /\ activated_at' = IF starts THEN Len(upstream) ELSE activated_at
           /\ overlay_failed' = IF starts THEN ~overlay_ok ELSE overlay_failed
           /\ last_event' = [kind |-> "user", struggle |-> struggle,
                             was_active |-> a.activated,
                             graduated |-> a.activated /\ ~g.activated]
    /\ UNCHANGED <<secret_configured, serviceVars, relayVars, fn, analysisVars, articleVars, storeVars, handlerVars, rest, svc, tutorVars>>

\* forward_from_elevenlabs handles an agent_response event with a text.
AgentResponse(text) ==
    /\ events < MaxEvents
    /\ events' = events + 1
    /\ local_transcript' = Append(local_transcript, Entry("tutor", text))
    /\ last_event' = [NoEvent EXCEPT !.kind = "agent",
                                     !.was_active = _soft_beginner_activated]
    /\ UNCHANGED <<secret_configured, serviceVars, relayVars, fn, analysisVars, articleVars, storeVars, handlerVars, rest, svc, tutorVars,
                   user_turn_counter, _soft_beginner_activated, upstream,
                   activated_at, overlay_failed>>

(***************************************************************************)
(* ElevenLabs bridge: start() and its two relay loops                      *)
(***************************************************************************)
MaxRelayEvents == 8
STAGGER_TURN_INTERVAL == 4
ADAPTIVE_RECOMMENDATION_INTERVAL == 6

Loops == {"to", "from"}
TaskKinds == {"periodic_update", "recommendation", "register_user_turn",
              "register_agent_turn"}
NoTasks == [k \in TaskKinds |-> [pending |-> 0, failed |-> 0]]
NoRelay == [kind |-> "none", cache_raised |-> FALSE, stopped |-> FALSE,
            relayed |-> FALSE, failed_before |-> 0]

\* asyncio.create_task(...) for each kind of a set.
Created(pool, kinds) ==
    [k \in TaskKinds |-> IF k \in kinds THEN [pool[k] EXCEPT !.pending = @ + 1]
                         ELSE pool[k]]
FailedTasks(pool) ==
    pool["periodic_update"].failed + pool["recommendation"].failed
      + pool["register_user_turn"].failed + pool["register_agent_turn"].failed

\* Variant: the failure of a task stops the bridge.
Propagated(active, ok) == active /\ ok
\* What the failure of a task nobody awaits does to is_active: nothing.
Unawaited(active, ok) == active

\* record_early_struggle: returns at once without a client, else pushes to
\* the cache; pushed = FALSE is a push that raises.
record_early_struggle(client, pushed) == [raised |-> client /\ ~pushed]

\* A loop task is scheduled by the event loop for as long as it has not
\* ended: while start() waits for it, and after start() was cancelled by the
\* session cap, which leaves both tasks as they are.
Scheduling(loop) == loops[loop] = "running" /\ started \in {"running", "timeout"}

\* asyncio.wait cancelled from outside: "Unlike wait_for(), wait() does not
\* cancel the futures"; the loop tasks stay as they are.
WaitCancelled(running) == running

\* _cancel_keepalive: a task, pending or finished, is cancelled and forgotten.
_cancel_keepalive(task) == "none"
\* _schedule_keepalive: nothing once the bridge is inactive, else the old
\* timer is cancelled and a new task created.
_schedule_keepalive(active, task) ==
    IF ~active THEN task ELSE "pending"

\* The except Exception handler of a loop, or the next test of its while
\* condition: the loop ends once is_active is false.
AfterMessage(loop, raised) ==
    /\ is_active' = (is_active /\ ~raised)
    /\ loops' = [loops EXCEPT ![loop] = IF is_active /\ ~raised THEN "running"
                                        ELSE "returned"]
    /\ caught' = IF raised THEN caught \cup {loop} ELSE caught

\* forward_from_elevenlabs handles a user_transcript event with a text.
\* struggle: _detect_early_struggle is true for it; pushed: the cache push
\* of record_early_struggle succeeds; sent: the frame reaches the learner.
RelayUserTranscript(struggle, pushed, sent) ==
    /\ Scheduling("from")
    /\ relay_events < MaxRelayEvents
    /\ relay_events' = relay_events + 1
    /\ LET counter == relay_turns + 1
           kinds == {"register_user_turn"}
                    \cup (IF counter % STAGGER_TURN_INTERVAL = 0
                          THEN {"periodic_update"} ELSE {})
                    \cup (IF counter % ADAPTIVE_RECOMMENDATION_INTERVAL = 0
                          THEN {"recommendation"} ELSE {})
           recorded == counter <= SOFT_BEGINNER_TURN_THRESHOLD /\ struggle
           cache_raised == recorded /\ record_early_struggle(redis_client, pushed).raised
           raised == cache_raised \/ ~sent
       IN  /\ relay_turns' = counter
           /\ tasks' = Created(tasks, kinds)
           /\ relayed' = IF raised THEN relayed ELSE relayed + 1
           /\ AfterMessage("from", raised)
           /\ last_relay' = [kind |-> "user_transcript", cache_raised |-> cache_raised,
                             stopped |-> is_active /\ raised, relayed |-> ~raised,
                             failed_before |-> FailedTasks(tasks)]
    /\ UNCHANGED <<secret_configured, serviceVars, keepalive_task, redis_client, started, fn, analysisVars,
                   articleVars, storeVars, handlerVars, rest, svc, tutorVars,
                   bridgeVars>>

\* forward_from_elevenlabs handles an agent_response event.
RelayAgentResponse(sent) ==
    /\ Scheduling("from")
    /\ relay_events < MaxRelayEvents
    /\ relay_events' = relay_events + 1
    /\ tasks' = Created(tasks, {"register_agent_turn"})
    /\ relayed' = IF sent THEN relayed + 1 ELSE relayed
    /\ AfterMessage("from", ~sent)
    /\ last_relay' = [kind |-> "agent_response", cache_raised |-> FALSE,
                      stopped |-> is_active /\ ~sent, relayed |-> sent,
                      failed_before |-> FailedTasks(tasks)]
    /\ UNCHANGED <<secret_configured, serviceVars, keepalive_task, redis_client, started, relay_turns, fn,
                   analysisVars, articleVars, storeVars, handlerVars, rest, svc,
                   tutorVars, bridgeVars>>

\* forward_from_elevenlabs handles an event carrying audio_event with a
\* payload: the wrapped audio is sent to the learner (sent = FALSE: the
\* send raises) and the keepalive timer is scheduled.
RelayAudioEvent(sent) ==
    /\ Scheduling("from")
    /\ relay_events < MaxRelayEvents
    /\ relay_events' = relay_events + 1
    /\ relayed' = IF sent THEN relayed + 1 ELSE relayed
    /\ keepalive_task' = IF sent THEN _schedule_keepalive(is_active, keepalive_task)
                          ELSE keepalive_task
    /\ AfterMessage("from", ~sent)
    /\ last_relay' = [NoRelay EXCEPT !.kind = "audio_event",
                                     !.stopped = is_active /\ ~sent, !.relayed = sent,
                                     !.failed_before = FailedTasks(tasks)]
    /\ UNCHANGED <<secret_configured, serviceVars, redis_client, started, tasks,
                   relay_turns, fn, analysisVars, articleVars, storeVars,
                   handlerVars, rest, svc, tutorVars, bridgeVars>>

\* _wait_and_ping runs to its end: the sleep is over and the task returns,
\* with or without a silence chunk sent; its exceptions are logged.  The
\* attribute keeps the finished task.
KeepaliveElapses ==
    /\ keepalive_task = "pending"
    /\ keepalive_task' = "done"
    /\ last_relay' = [NoRelay EXCEPT !.kind = "keepalive",
                                     !.failed_before = FailedTasks(tasks)]
    /\ UNCHANGED <<secret_configured, serviceVars, redis_client, is_active, loops,
                   caught, started, tasks, relay_turns, relayed, relay_events, fn,
                   analysisVars, articleVars, storeVars, handlerVars, rest, svc,
                   tutorVars, bridgeVars>>

\* The upstream socket closes: recv() raises ConnectionClosed.
UpstreamCloses ==
    /\ Scheduling("from")
    /\ is_active' = FALSE
    /\ loops' = [loops EXCEPT !["from"] = "returned"]
    /\ last_relay' = [NoRelay EXCEPT !.kind = "upstream_closed", !.stopped = is_active,
                                     !.failed_before = FailedTasks(tasks)]
    /\ UNCHANGED <<secret_configured, serviceVars, keepalive_task, redis_client, caught, started, tasks,
                   relay_turns, relayed, relay_events, fn, analysisVars, articleVars,
                   storeVars, handlerVars, rest, svc, tutorVars, bridgeVars>>

\* forward_to_elevenlabs handles a message of the learner: an audio chunk
\* or an interrupt forwarded upstream (forwarded = FALSE: the send raises,
\* or the learner's socket failed), or the end message.
RelayLearnerMessage(type, forwarded) ==
    /\ Scheduling("to")
    /\ relay_events < MaxRelayEvents
    /\ relay_events' = relay_events + 1
    /\ IF type = "end"
       THEN /\ is_active' = FALSE
            /\ loops' = [loops EXCEPT !["to"] = "returned"]
            /\ UNCHANGED caught
       ELSE AfterMessage("to", ~forwarded)
    /\ keepalive_task' = IF type = "audio" THEN _cancel_keepalive(keepalive_task)
                          ELSE keepalive_task
    /\ last_relay' = [NoRelay EXCEPT !.kind = type,
                                     !.stopped = is_active /\ (type = "end" \/ ~forwarded),
                                     !.failed_before = FailedTasks(tasks)]
    /\ UNCHANGED <<secret_configured, serviceVars, redis_client, started, tasks, relay_turns,
                   relayed, fn, analysisVars, articleVars, storeVars, handlerVars,
                   rest, svc, tutorVars, bridgeVars>>

\* A background task runs to its end.  ok = FALSE: it raises (a cache
\* operation, the model request or a send failed); the exception stays in
\* the task object.
TaskRuns(kind, ok) ==
    /\ tasks[kind].pending > 0
    /\ tasks' = [tasks EXCEPT ![kind] = [pending |-> @.pending - 1,
                                         failed |-> IF ok THEN @.failed
                                                    ELSE @.failed + 1]]
    /\ is_active' = Unawaited(is_active, ok)
    /\ last_relay' = [NoRelay EXCEPT !.kind = "task",
                                     !.cache_raised = (~ok /\ redis_client /\
                                         kind \in {"register_user_turn",
                                                   "register_agent_turn"}),
                                     !.stopped = (is_active /\ ~is_active'),
                                     !.failed_before = FailedTasks(tasks)]
    /\ UNCHANGED <<secret_configured, serviceVars, keepalive_task, redis_client, loops, caught, started,
                   relay_turns, relayed, relay_events, fn, analysisVars, articleVars,
                   storeVars, handlerVars, rest, svc, tutorVars, bridgeVars>>

\* asyncio.wait returns in start(): the loops still pending are cancelled,
\* the exception of a finished loop is raised again.  voice_session answers
\* an exception with _handle_session_error and a normal return with nothing.
StartCompletes ==
    /\ started = "running"
    /\ \E l \in Loops : loops[l] # "running"
    /\ loops' = [l \in Loops |-> IF loops[l] = "running" THEN "cancelled" ELSE loops[l]]
    /\ started' = IF \E l \in Loops : loops[l] = "raised" THEN "error" ELSE "normal"
    /\ last_relay' = [NoRelay EXCEPT !.kind = "start", !.failed_before = FailedTasks(tasks)]
    /\ UNCHANGED <<secret_configured, serviceVars, keepalive_task, redis_client, is_active, caught, tasks,
                   relay_turns, relayed, relay_events, fn, analysisVars, articleVars,
                   storeVars, handlerVars, rest, svc, tutorVars, bridgeVars>>

\* voice_session: asyncio.wait_for(conversation.start(), timeout) reaches
\* MAX_SESSION_MINUTES.  start() is cancelled inside asyncio.wait; the
\* CancelledError is no Exception, so neither the loop over pending nor the
\* handler of start() runs, and voice_session never calls end().
StartCancelled ==
    /\ started = "running"
    /\ started' = "timeout"
    /\ loops' = WaitCancelled(loops)
    /\ last_relay' = [NoRelay EXCEPT !.kind = "timeout",
                                     !.failed_before = FailedTasks(tasks)]
    /\ UNCHANGED <<secret_configured, serviceVars, keepalive_task, redis_client,
                   is_active, caught, tasks, relay_turns, relayed, relay_events, fn,
                   analysisVars, articleVars, storeVars, handlerVars, rest, svc,
                   tutorVars, bridgeVars>>

\* The bridge once start() has connected and created the two loop tasks.
InitRelay ==
    /\ is_active = TRUE
    /\ loops = [l \in Loops |-> "running"]
    /\ caught = {}
    /\ started = "running"
    /\ tasks = NoTasks
    /\ relay_turns = 0
    /\ relayed = 0
    /\ relay_events = 0
    /\ last_relay = NoRelay
    /\ keepalive_task = "none"

(***************************************************************************)
(* Article service: import_article                                         *)
(***************************************************************************)
MaxArticles == 3
Requests == {1, 2}
Urls == {"url1", "url2"}

WeeklyArticle(url, active) == [url |-> url, is_active |-> active]

\* The ids (positions) of the rows with is_active = true.
ActiveArticles(table) == {i \in 1..Len(table) : table[i].is_active}

NoImport == [pc |-> "idle", url |-> None]
NoImported == [request |-> 0, ok |-> FALSE, id |-> 0, before |-> {}]

\* Variant of DeactivateAll that leaves the rows as they are.
DeactivateNone(table) == table

\* The UPDATE of import_article: every active row is deactivated.
DeactivateAll(table) == [i \in 1..Len(table) |-> [table[i] EXCEPT !.is_active = FALSE]]

\* import_article up to its suspension point: fetch_and_parse has run
\* (fetched = FALSE: it raised) and the summary request is awaited.
ImportArticleFetch(request, url, fetched) ==
    /\ importers[request].pc = "idle"
    /\ Len(weekly_articles)
         + Cardinality({r \in Requests : importers[r].pc = "summarising"}) < MaxArticles
    /\ IF fetched
       THEN /\ importers' = [importers EXCEPT ![request] =
                                [pc |-> "summarising", url |-> url]]
            /\ UNCHANGED imported
       ELSE /\ imported' = [request |-> request, ok |-> FALSE, id |-> 0,
                            before |-> ActiveArticles(weekly_articles)]
            /\ UNCHANGED importers
    /\ UNCHANGED <<secret_configured, serviceVars, relayVars, fn, analysisVars, weekly_articles,
                   storeVars, handlerVars,
                   rest, svc, tutorVars, bridgeVars>>

\* import_article from the answer of the summary request to its return: no
\* suspension point lies between the two database sessions.  summarised,
\* deactivated and inserted say whether the summary request, the commit of
\* the deactivation and the commit of the new row succeed.
ImportArticleStore(request, summarised, deactivated, inserted) ==
    /\ importers[request].pc = "summarising"
    /\ importers' = [importers EXCEPT ![request] = NoImport]
    /\ LET before == ActiveArticles(weekly_articles)
           cleared == IF summarised /\ deactivated
                      THEN DeactivateAll(weekly_articles) ELSE weekly_articles
           ok == summarised /\ deactivated /\ inserted
       IN  /\ weekly_articles' =
                 IF ok THEN Append(cleared, WeeklyArticle(importers[request].url, TRUE))
                 ELSE cleared
           /\ imported' = [request |-> request, ok |-> ok,
                           id |-> IF ok THEN Len(weekly_articles) + 1 ELSE 0,
                           before |-> before]
    /\ UNCHANGED <<secret_configured, serviceVars, relayVars, fn, analysisVars, storeVars,
                   handlerVars, rest, svc, tutorVars, bridgeVars>>

InitArticles ==
    /\ weekly_articles = <<>>
    /\ importers = [r \in Requests |-> NoImport]
    /\ imported = NoImported

(***************************************************************************)
(* Article service: get_or_create_analysis                                 *)
(***************************************************************************)
MaxGenerations == 2
ArticleIds == {1, 2}
Pairs == ArticleIds \X UserIds

\* Values of one field of the dict the generator answers: the key is absent,
\* or its value is None, or a list.
Absent == [t |-> "absent", items |-> 0]
JsonNull == [t |-> "null", items |-> 0]
JsonList(n) == [t |-> "list", items |-> n]
Generated == {Absent, JsonNull, JsonList(1), JsonList(2)}

\* analysis.get(key, [])
GetOrEmpty(value) == IF value = Absent THEN JsonList(0) ELSE value

\* json.dumps of such a value, and json.loads of such a text.
JsonDumps(value) ==
    IF value.t = "null" THEN "null"
    ELSE CASE value.items = 0 -> "[]" [] value.items = 1 -> "[1]" [] OTHER -> "[2]"
JsonLoads(text) ==
    CASE text = "null" -> JsonNull
      [] text = "[]" -> JsonList(0)
      [] text = "[1]" -> JsonList(1)
      [] OTHER -> JsonList(2)

_safe_json_parse(value, default) ==
    IF value = "" THEN default ELSE JsonLoads(value)

UserArticleAnalysis(article_id, user_id, text) ==
    [article_id |-> article_id, user_id |-> user_id, vocab_items |-> text]

\* The rows select(...).where(article_id).where(user_id) matches.
Existing(table, article_id, user_id) ==
    {i \in 1..Len(table) : table[i].article_id = article_id /\ table[i].user_id = user_id}

NoAnalyst == [pc |-> "idle", article_id |-> 0, user_id |-> None, seen |-> {}]
NoAnalysed == [request |-> 0, article_id |-> 0, user_id |-> None, ok |-> FALSE,
               generated |-> FALSE, content |-> Absent, seen |-> {}]

\* The existence check of get_or_create_analysis.
ExistingAnalyses(table, article_id, user_id) == Existing(table, article_id, user_id)

\* get_or_create_analysis up to its suspension point.  row is the row
\* .first() answers when rows match (no ORDER BY: any of them).  A hit
\* returns the parsed row, a missing article raises, otherwise the
\* generation request is awaited.
GetOrCreateAnalysis(request, article_id, user_id, row) ==
    /\ analysts[request].pc = "idle"
    /\ LET existing == ExistingAnalyses(user_article_analyses, article_id, user_id)
           seen == returned[<<article_id, user_id>>]
       IN  IF existing # {}
           THEN /\ row \in existing
                /\ LET content ==
                         _safe_json_parse(user_article_analyses[row].vocab_items,
                                          JsonList(0))
                   IN  /\ analysed' = [request |-> request, article_id |-> article_id,
                                       user_id |-> user_id, ok |-> TRUE,
                                       generated |-> FALSE, content |-> content,
                                       seen |-> seen]
                       /\ returned' = [returned EXCEPT ![<<article_id, user_id>>] =
                                            @ \cup {content}]
                /\ UNCHANGED <<analysts, generations>>
           ELSE /\ row = 0
                /\ IF article_id \in 1..Len(weekly_articles)
                   THEN /\ generations[<<1, "u1">>] + generations[<<1, "u2">>]
                              < MaxGenerations
                        /\ analysts' = [analysts EXCEPT ![request] =
                                [pc |-> "generating", article_id |-> article_id,
                                 user_id |-> user_id, seen |-> seen]]
                        /\ generations' = [generations EXCEPT
                                              ![<<article_id, user_id>>] = @ + 1]
                        /\ UNCHANGED analysed
                   ELSE /\ analysed' = [NoAnalysed EXCEPT !.request = request,
                                           !.article_id = article_id,
                                           !.user_id = user_id, !.seen = seen]
                        /\ UNCHANGED <<analysts, generations>>
                /\ UNCHANGED returned
    /\ UNCHANGED <<secret_configured, serviceVars, relayVars, fn, articleVars, user_article_analyses,
                   storeVars, handlerVars, rest, svc, tutorVars, bridgeVars>>

\* get_or_create_analysis from the answer of the generation request to its
\* return.  answered = FALSE: the request raised; inserted = FALSE: the
\* commit of the new row raised.
StoreAnalysis(request, answered, value, inserted) ==
    /\ analysts[request].pc = "generating"
    /\ analysts' = [analysts EXCEPT ![request] = NoAnalyst]
    /\ LET call == analysts[request]
           ok == answered /\ inserted
           content == GetOrEmpty(value)
       IN  /\ user_article_analyses' =
                 IF ok THEN Append(user_article_analyses,
                                   UserArticleAnalysis(call.article_id, call.user_id,
                                                       JsonDumps(content)))
                 ELSE user_article_analyses
           /\ analysed' = [request |-> request, article_id |-> call.article_id,
                           user_id |-> call.user_id, ok |-> ok, generated |-> TRUE,
                           content |-> IF ok THEN content ELSE Absent,
                           seen |-> call.seen]
           /\ returned' = IF ok
                          THEN [returned EXCEPT ![<<call.article_id, call.user_id>>] =
                                    @ \cup {content}]
                          ELSE returned
    /\ UNCHANGED <<secret_configured, serviceVars, relayVars, fn, articleVars, generations, storeVars,
                   handlerVars, rest, svc, tutorVars, bridgeVars>>

InitAnalyses ==
    /\ user_article_analyses = <<>>
    /\ analysts = [r \in Requests |-> NoAnalyst]
    /\ analysed = NoAnalysed
    /\ returned = [p \in Pairs |-> {}]
    /\ generations = [p \in Pairs |-> 0]

(***************************************************************************)
(* Functions applied on their own                                          *)
(***************************************************************************)
NoApplication == [op |-> "none"]

\* Words a transcription can hold, as the platform delivers them.
Vocabulary == {"si", "SI", "quiero", "What", "somewhat", "sorry", "i", "don't",
               "...", "[silence]"}
MaxWords == 3
Transcripts == UNION {[1..n -> Vocabulary] : n \in 0..MaxWords}
MaxTurn == 6

\* str.lower() of a word.
Lower(word) == CASE word = "SI" -> "si" [] word = "What" -> "what" [] OTHER -> word

MinimalSpanish == {"si", "no", "hola", "bueno", "ok", "um", "uh"}

\* The markers of a list that are substrings of the lowered text made of the
\* given words joined by blanks ("i don't" spans two words).
MarkersIn(words, markers) ==
    {m \in markers :
        \/ \E i \in 1..Len(words) :
              \/ Lower(words[i]) = m
              \/ m = "what" /\ Lower(words[i]) = "somewhat"
        \/ m = "i don't" /\ \E i \in 1..(Len(words) - 1) :
                                Lower(words[i]) = "i" /\ Lower(words[i + 1]) = "don't"}

\* (user_transcript or "").strip().lower() and what the detectors read of it.
Heard(words) ==
    LET found == MarkersIn(words, StruggleMarkers)
    IN  Utterance(Len(words),
                  IF found = {} THEN "none" ELSE CHOOSE m \in found : TRUE,
                  Len(words) = 1 /\ Lower(words[1]) \in MinimalSpanish,
                  \E i \in 1..Len(words) : words[i] \in {"...", "[silence]"})

\* ---- db_service.determine_starting_difficulty ----
MaxNotes == 52
\* .limit(50)
NotesWindow == 50
MIN_NOTES_FOR_DIFFICULTY_ESCALATION == 35
SEVERE_PRIORITY_CUTOFF == 2
\* BEGINNER_MAX_ERROR_RATE = 0.28 and ADVANCED_PROMOTION_ERROR_RATE = 0.08,
\* in hundredths
BEGINNER_MAX_ERROR_RATE == 28
ADVANCED_PROMOTION_ERROR_RATE == 8
MIN_FLUENCY_NOTES_FOR_PROMOTION == 8

\* The notes the query answers, by what the function reads of them: how many
\* there are, how many have each priority, how many are of kind FLUENCY.
Window(note_count, by_priority, fluency) ==
    [note_count |-> note_count, by_priority |-> by_priority, fluency |-> fluency]

\* len(severe_notes): the notes with priority <= SEVERE_PRIORITY_CUTOFF.
SevereNotes(recent_notes) ==
    LET RECURSIVE Sum(_)
        Sum(p) == IF p < 1 THEN 0 ELSE recent_notes.by_priority[p] + Sum(p - 1)
    IN  Sum(SEVERE_PRIORITY_CUTOFF)

\* severe_rate compared with a rate given in hundredths.  The quotient of two
\* integers up to 50 is never within rounding distance of 0.28 or 0.08
\* without being equal to it, so the float comparison is the exact one.
RateAtLeast(severe, note_count, hundredths) == 100 * severe >= hundredths * note_count
RateAtMost(severe, note_count, hundredths) == 100 * severe <= hundredths * note_count

\* Variant of determine_starting_difficulty without the minimum of notes.
determine_starting_difficulty_no_floor(recent_notes) ==
    IF recent_notes.note_count = 0 THEN "beginner"
    ELSE IF RateAtLeast(SevereNotes(recent_notes), recent_notes.note_count,
                        BEGINNER_MAX_ERROR_RATE)
    THEN "beginner"
    ELSE IF /\ recent_notes.fluency >= MIN_FLUENCY_NOTES_FOR_PROMOTION
            /\ RateAtMost(SevereNotes(recent_notes), recent_notes.note_count,
                          ADVANCED_PROMOTION_ERROR_RATE)
    THEN "advanced"
    ELSE "intermediate"

\* Variant of determine_starting_difficulty that promotes on the fluency
\* notes alone.
determine_starting_difficulty_fluency_only(recent_notes) ==
    IF recent_notes.note_count < MIN_NOTES_FOR_DIFFICULTY_ESCALATION THEN "beginner"
    ELSE IF RateAtLeast(SevereNotes(recent_notes), recent_notes.note_count,
                        BEGINNER_MAX_ERROR_RATE)
    THEN "beginner"
    ELSE IF recent_notes.fluency >= MIN_FLUENCY_NOTES_FOR_PROMOTION
    THEN "advanced"
    ELSE "intermediate"

determine_starting_difficulty(recent_notes) ==
    IF recent_notes.note_count = 0 THEN "beginner"
    ELSE IF recent_notes.note_count < MIN_NOTES_FOR_DIFFICULTY_ESCALATION
    THEN "beginner"
    ELSE IF RateAtLeast(SevereNotes(recent_notes), recent_notes.note_count,
                        BEGINNER_MAX_ERROR_RATE)
    THEN "beginner"
    ELSE IF /\ recent_notes.fluency >= MIN_FLUENCY_NOTES_FOR_PROMOTION
            /\ RateAtMost(SevereNotes(recent_notes), recent_notes.note_count,
                          ADVANCED_PROMOTION_ERROR_RATE)
    THEN "advanced"
    ELSE "intermediate"

\* The user has `total` learning notes; the query answers the newest
\* NotesWindow of them, of which p1 have priority 1, p2 priority 2, the
\* others priority 3, and `fluency` are FLUENCY notes.
DetermineStartingDifficulty(total, p1, p2, fluency) ==
    /\ fn = NoApplication
    /\ LET note_count == IF total < NotesWindow THEN total ELSE NotesWindow
       IN  /\ p1 + p2 <= note_count
           /\ fluency <= note_count
           /\ LET recent_notes ==
                    Window(note_count,
                           [p \in {1, 2, 3} |->
                               CASE p = 1 -> p1 [] p = 2 -> p2
                                 [] OTHER -> note_count - p1 - p2],
                           fluency)
              IN  fn' = [op |-> "determine_starting_difficulty", total |-> total,
                         recent_notes |-> recent_notes,
                         result |-> determine_starting_difficulty(recent_notes)]
    /\ UNCHANGED <<secret_configured, serviceVars, relayVars, analysisVars, articleVars, storeVars,
                   handlerVars, rest, svc, tutorVars, bridgeVars>>

\* ---- db_service.save_learning_note ----
NoteType == {"GRAMMAR", "VOCAB", "VOCABULARY", "PRONUNCIATION", "FLUENCY",
             "TOPIC_MENTION", "CLUSTER"}

\* Values of analysis.get("note_type"): None when the key is absent.
RawKinds == {None, "", "  ", "vocab", "VOCAB", "Vocab", " vocab ", "vocabulary",
             "grammar", "Grammar", "GRAMMAR", "pronunciation", "fluency", "Fluency",
             "topic_mention", "Topic_Mention", "cluster", "nonsense", "NONSENSE",
             "vocabs"}
Priorities == {1, 2, 3}

\* str.strip() and str.upper() on these strings.
Strip(text) == CASE text = "  " -> "" [] text = " vocab " -> "vocab" [] OTHER -> text
Upper(text) ==
    CASE text \in {"vocab", "Vocab"} -> "VOCAB"
      [] text = "vocabulary" -> "VOCABULARY"
      [] text \in {"grammar", "Grammar"} -> "GRAMMAR"
      [] text = "pronunciation" -> "PRONUNCIATION"
      [] text \in {"fluency", "Fluency"} -> "FLUENCY"
      [] text \in {"topic_mention", "Topic_Mention"} -> "TOPIC_MENTION"
      [] text = "cluster" -> "CLUSTER"
      [] text = "nonsense" -> "NONSENSE"
      [] text = "vocabs" -> "VOCABS"
      [] OTHER -> text

\* Variant of _normalize_note_type that compares the label as it is spelled.
_normalize_note_type_case_sensitive(raw_type) ==
    LET label == Strip(IF raw_type \in {None, ""} THEN "CLUSTER" ELSE raw_type)
    IN  IF label \in NoteType THEN label ELSE "CLUSTER"

_normalize_note_type(raw_type) ==
    LET label == Upper(Strip(IF raw_type \in {None, ""} THEN "CLUSTER" ELSE raw_type))
    IN  IF label \in NoteType THEN label
        ELSE IF label = "VOCABULARY" THEN "VOCABULARY"
        ELSE IF label = "VOCAB" THEN "VOCAB"
        ELSE "CLUSTER"

\* save_learning_note: the row added to the session.
save_learning_note(raw_type, priority) ==
    [note_type |-> _normalize_note_type(raw_type), priority |-> priority]

SaveLearningNote(raw_type, priority) ==
    /\ fn = NoApplication
    /\ fn' = [op |-> "save_learning_note", raw_type |-> raw_type,
              raised |-> FALSE, note |-> save_learning_note(raw_type, priority)]
    /\ UNCHANGED <<secret_configured, serviceVars, relayVars, analysisVars, articleVars, storeVars,
                   handlerVars, rest, svc, tutorVars, bridgeVars>>

\* ---- CerebrasService.translate_text ----
\* Outcome of a model request that raises (timeout, HTTP error, bad payload).
Raises == "<raises>"
SourceTexts == {"", "  ", "hola", " Hola "}
ModelReplies == {Raises, "", "hola", "HOLA", "hello"}
FallbackReplies == {None, "", "hola", "hello"}

\* str.strip() and str.strip().lower() on these texts.
StripText(text) == CASE text = "  " -> "" [] text = " Hola " -> "Hola" [] OTHER -> text
FoldText(text) ==
    CASE text \in {" Hola ", "Hola", "HOLA"} -> "hola" [] text = "  " -> "" [] OTHER -> text

_looks_untranslated(original, translated) == FoldText(translated) = FoldText(original)

Translated(requests, via, result) ==
    [requests |-> requests, raised |-> FALSE, via |-> via, result |-> result]

\* Variant of translate_text that accepts the first model output as it is.
translate_text_no_retry(api_key, text, first, second, fallback, fail_on_untranslated) ==
    LET cleaned == StripText(text)
    IN  IF cleaned = "" THEN Translated(<<>>, "empty", "")
        ELSE IF api_key /\ first # Raises THEN Translated(<<FALSE>>, "model", first)
        ELSE IF fallback \notin {None, ""} /\ ~_looks_untranslated(cleaned, fallback)
        THEN Translated(IF api_key THEN <<FALSE>> ELSE <<>>, "fallback", fallback)
        ELSE Translated(IF api_key THEN <<FALSE>> ELSE <<>>, "source", cleaned)

\* translate_text.  first and second are the outcomes of the model requests
\* in the order they are made, fallback the answer of the local translator.
\* requests lists the requests made, by their strict flag.
translate_text(api_key, text, first, second, fallback, fail_on_untranslated) ==
    LET cleaned == StripText(text)
        retried == api_key /\ first # Raises /\ _looks_untranslated(cleaned, first)
        translation == IF retried THEN second ELSE first
        requests == IF ~api_key THEN <<>>
                    ELSE IF retried THEN <<FALSE, TRUE>> ELSE <<FALSE>>
    IN  IF cleaned = "" THEN Translated(<<>>, "empty", "")
        ELSE IF /\ api_key /\ first # Raises /\ translation # Raises
                /\ ~_looks_untranslated(cleaned, translation)
        THEN Translated(requests, "model", translation)
        ELSE IF fallback \notin {None, ""} /\ ~_looks_untranslated(cleaned, fallback)
        THEN Translated(requests, "fallback", fallback)
        ELSE IF fail_on_untranslated
        THEN [requests |-> requests, raised |-> TRUE, via |-> "none", result |-> ""]
        ELSE Translated(requests, "source", cleaned)

TranslateText(api_key, text, first, second, fallback, fail_on_untranslated) ==
    /\ fn = NoApplication
    /\ fn' = [op |-> "translate_text", api_key |-> api_key, text |-> text,
              first |-> first, second |-> second,
              out |-> translate_text(api_key, text, first, second, fallback,
                                     fail_on_untranslated)]
    /\ UNCHANGED <<secret_configured, serviceVars, relayVars, analysisVars, articleVars, storeVars,
                   handlerVars, rest, svc, tutorVars, bridgeVars>>

\* ---- config/agents.py: get_agent ----
Bands == {"beginner", "intermediate", "advanced"}
AskedDifficulties == Bands \cup {"expert"}
Unconfigured == ""
\* SPANISH_AGENTS under the three identifiers of the settings.
SPANISH_AGENTS(beginner, intermediate, advanced) ==
    [b \in Bands |-> CASE b = "beginner" -> beginner
                       [] b = "intermediate" -> intermediate
                       [] OTHER -> advanced]

\* dict.get(key, default).
Get(dict, key, default) == IF key \in DOMAIN dict THEN dict[key] ELSE default

\* The agent_id of the Agent that get_agent returns.
get_agent(agents, difficulty) ==
    Get(agents, difficulty, Get(agents, "intermediate", Unconfigured))

GetAgent(agents, difficulty) ==
    /\ fn = NoApplication
    /\ fn' = [op |-> "get_agent", agents |-> agents, difficulty |-> difficulty,
              agent_id |-> get_agent(agents, difficulty)]
    /\ UNCHANGED <<secret_configured, serviceVars, relayVars, analysisVars,
                   articleVars, storeVars, handlerVars, rest, svc, tutorVars,
                   bridgeVars>>

\* ---- the early-struggle pattern of a user ----
MaxPattern == 6
\* redis_client.lrange(key, -5, -1) and len(entries) >= 3
PatternWindow == 5
PatternNeeded == 3
PatternConversations == {"s1", "s2", "s3"}

\* The lists struggle_pattern:<user> can hold: record_early_struggle
\* appends one entry per struggling learner turn, and a bridge calls it on
\* its first SOFT_BEGINNER_TURN_THRESHOLD learner turns only.
StrugglePatterns ==
    {entries \in UNION {[1..n -> PatternConversations] : n \in 0..MaxPattern} :
        \A c \in PatternConversations :
            Cardinality({i \in 1..Len(entries) : entries[i] = c})
                <= SOFT_BEGINNER_TURN_THRESHOLD}

\* should_preactivate_soft_beginner with the cache connected.
should_preactivate_soft_beginner(entries) ==
    Len(LastN(entries, PatternWindow)) >= PatternNeeded

ShouldPreactivate(entries) ==
    /\ fn = NoApplication
    /\ fn' = [op |-> "should_preactivate_soft_beginner", entries |-> entries,
              result |-> should_preactivate_soft_beginner(entries)]
    /\ UNCHANGED <<secret_configured, serviceVars, relayVars, analysisVars,
                   articleVars, storeVars, handlerVars, rest, svc, tutorVars,
                   bridgeVars>>

\* ---- the thought signature of a user across a Gemini cluster analysis ----
\* The signature store of one user: _thought_signatures[user_id] (None when
\* the key is missing), the cache entry gemini_thought_signature:<user>,
\* and what _get_redis_client() answers: a client, a client whose commands
\* raise, or None.
RedisStates == {"connected", "failing", "none"}
SignatureStores ==
    [cached : {None, "p0"}, durable : {None, "p0"}, redis : RedisStates]

\* What the Gemini request of a cluster analysis comes to: it raises, or
\* its text is no JSON, or it parses to a dict with or without a
\* pattern_detected (absent, empty or a text) and with or without all of
\* the required fields.
GeminiResponses ==
    {[kind |-> "error", pattern |-> None, complete |-> FALSE],
     [kind |-> "unparsable", pattern |-> None, complete |-> FALSE]}
    \cup [kind : {"dict"}, pattern : {None, "", "p1"}, complete : BOOLEAN]

get_user_thought_signature(signatures) ==
    IF signatures.cached # None THEN signatures.cached
    ELSE IF signatures.redis = "connected" THEN signatures.durable
    ELSE None

\* The store once get_user_thought_signature has run: a signature found in
\* the cache only is kept in process.
SignatureLoaded(signatures) ==
    [signatures EXCEPT !.cached = get_user_thought_signature(signatures)]

set_user_thought_signature(signatures, signature) ==
    [signatures EXCEPT
        !.cached = signature,
        !.durable = IF signatures.redis = "connected" THEN signature ELSE @]

\* GeminiService.analyze_turn_cluster for a cluster that is not empty:
\* the store it leaves, where its result comes from and whether the
\* except branch was taken.
analyze_turn_cluster(signatures, api_key, client, user_id, response, fallback) ==
    LET answer(source, failed, after) ==
            [source |-> source, failed |-> failed, after |-> after]
        loaded == IF user_id # None THEN SignatureLoaded(signatures)
                  ELSE signatures
        tracked == IF user_id # None /\ response.pattern \notin {None, ""}
                   THEN set_user_thought_signature(loaded, response.pattern)
                   ELSE loaded
        failure(after) ==
            answer(IF fallback THEN "cerebras" ELSE "mock", TRUE, after)
    IN  IF ~api_key THEN answer("mock", FALSE, signatures)
        ELSE IF ~client THEN answer("mock", FALSE, loaded)
        ELSE IF response.kind # "dict" THEN failure(loaded)
        ELSE IF ~response.complete THEN failure(tracked)
        ELSE answer("gemini", FALSE, tracked)

AnalyzeTurnCluster(signatures, api_key, client, user_id, response, fallback) ==
    /\ fn = NoApplication
    /\ fn' = [op |-> "analyze_turn_cluster", before |-> signatures,
              user_id |-> user_id, response |-> response,
              result |-> analyze_turn_cluster(signatures, api_key, client,
                                              user_id, response, fallback)]
    /\ UNCHANGED <<secret_configured, serviceVars, relayVars, analysisVars,
                   articleVars, storeVars, handlerVars, rest, svc, tutorVars,
                   bridgeVars>>

\* ---- guidance from a cluster analysis ----
TIP_LENGTH == 80
\* A text by its length and its length once stripped of blanks.
Text(raw, stripped) == [raw |-> raw, stripped |-> stripped]
\* The guidance texts an analysis may carry to the callback: not empty,
\* blank or not, around the length of a tip.
GuidanceTexts ==
    {Text(n, k) : n \in {1, 79, 80, 81, 200}, k \in {0}} \cup
    {Text(n, n) : n \in {1, 79, 80, 81, 200}} \cup {Text(82, 80), Text(83, 81)}
GuidancePriorities == 0..4

\* Variant of _build_guidance_payload with two labels only.
_build_guidance_payload_two_levels(analysis) ==
    [severity |-> IF analysis.priority <= 1 THEN "high" ELSE "low",
     instruction |-> analysis.guidance]
_build_guidance_payload(analysis) ==
    [severity |-> IF analysis.priority <= 1 THEN "high"
                  ELSE IF analysis.priority = 2 THEN "medium" ELSE "low",
     instruction |-> analysis.guidance]

\* _send_user_nudge: the length of the tip sent, or NoText when the method
\* returns without sending.
_send_user_nudge(payload, has_socket) ==
    IF ~has_socket THEN NoText
    ELSE IF payload.instruction.stripped = 0 THEN NoText
    ELSE IF payload.instruction.stripped <= TIP_LENGTH THEN payload.instruction.stripped
    ELSE (TIP_LENGTH - 3) + 3

\* register_agent_turn hands the payload of an analysis to _handle_guidance:
\* the dynamic variables and the directive go upstream, the nudge to the
\* learner.  Send errors are logged by the three methods.
HandleGuidance(analysis, upstream_ok, learner_ok) ==
    /\ fn = NoApplication
    /\ LET payload == _build_guidance_payload(analysis)
           truncated == payload.instruction.stripped > 0
           nudge == IF payload.severity \in {"high", "medium"} /\ truncated
                    THEN _send_user_nudge(payload, TRUE) ELSE NoText
       IN  fn' = [op |-> "_handle_guidance", analysis |-> analysis,
                  severity |-> payload.severity,
                  directive |-> payload.instruction.raw > 0,
                  upstream_ok |-> upstream_ok,
                  nudged |-> nudge # NoText, tip |-> nudge,
                  learner_ok |-> learner_ok]
    /\ UNCHANGED <<secret_configured, serviceVars, relayVars, analysisVars,
                   articleVars, storeVars, handlerVars, rest, svc, tutorVars,
                   bridgeVars>>

\* ---- _pcm_base64_to_wav_base64 ----
MaxPayload == 3
Pad == 64
\* Raw PCM payloads: every short sequence over three byte values, and two
\* long ones whose sizes need a second byte.
Payloads ==
    UNION {[1..n -> {0, 1, 255}] : n \in 0..MaxPayload}
      \cup {[i \in 1..n |-> (7 * i) % 256] : n \in {220, 300 + MaxPayload}}

\* base64.b64encode: four characters (values 0..63, Pad for '=') for each
\* group of three bytes.
b64encode(bytes) ==
    LET n == Len(bytes)
        at(i) == IF i <= n THEN bytes[i] ELSE 0
    IN  [j \in 1..(4 * ((n + 2) \div 3)) |->
            LET g == (j - 1) \div 4
                k == (j - 1) % 4
                v == at(3 * g + 1) * 65536 + at(3 * g + 2) * 256 + at(3 * g + 3)
            IN  IF 3 * g + k > n THEN Pad ELSE (v \div (64 ^ (3 - k))) % 64]

\* base64.b64decode of a padded text.
b64decode(chars) ==
    LET m == Len(chars)
        pads == Cardinality({j \in 1..m : chars[j] = Pad})
        val(j) == IF chars[j] = Pad THEN 0 ELSE chars[j]
    IN  [i \in 1..(3 * (m \div 4) - pads) |->
            LET g == (i - 1) \div 3
                k == (i - 1) % 3
                v == val(4 * g + 1) * 262144 + val(4 * g + 2) * 4096
                       + val(4 * g + 3) * 64 + val(4 * g + 4)
            IN  (v \div (256 ^ (2 - k))) % 256]

\* Variant of to_bytes that puts the most significant byte first.
to_bytes_big(n, width) == [i \in 1..width |-> (n \div (256 ^ (width - i))) % 256]
\* int.to_bytes(width, "little").
to_bytes(n, width) == [i \in 1..width |-> (n \div (256 ^ (i - 1))) % 256]

\* The bytes of the four-letter tags.
Tag(name) ==
    CASE name = "RIFF" -> <<82, 73, 70, 70>>
      [] name = "WAVE" -> <<87, 65, 86, 69>>
      [] name = "fmt " -> <<102, 109, 116, 32>>
      [] OTHER -> <<100, 97, 116, 97>>

_pcm_base64_to_wav_base64(pcm_b64, sample_rate, channels, sample_width) ==
    LET pcm_bytes == b64decode(pcm_b64)
        data_size == Len(pcm_bytes)
        byte_rate == sample_rate * channels * sample_width
        block_align == channels * sample_width
        header == Tag("RIFF") \o to_bytes(36 + data_size, 4) \o Tag("WAVE")
                    \o Tag("fmt ") \o to_bytes(16, 4) \o to_bytes(1, 2)
                    \o to_bytes(channels, 2) \o to_bytes(sample_rate, 4)
                    \o to_bytes(byte_rate, 4) \o to_bytes(block_align, 2)
                    \o to_bytes(sample_width * 8, 2) \o Tag("data")
                    \o to_bytes(data_size, 4)
    IN  b64encode(header \o pcm_bytes)

\* The audio_event branch of forward_from_elevenlabs wraps a payload with
\* the default format.
PcmToWav(pcm) ==
    /\ fn = NoApplication
    /\ fn' = [op |-> "_pcm_base64_to_wav_base64", pcm |-> pcm,
              wav_b64 |-> _pcm_base64_to_wav_base64(b64encode(pcm), 16000, 1, 2)]
    /\ UNCHANGED <<secret_configured, serviceVars, relayVars, analysisVars,
                   articleVars, storeVars, handlerVars, rest, svc, tutorVars,
                   bridgeVars>>

\* ---- ElevenLabsConversationHandler._detect_early_struggle ----
DetectEarlyStruggle(counter, words) ==
    /\ fn = NoApplication
    /\ fn' = [op |-> "_detect_early_struggle", counter |-> counter, words |-> words,
              result |-> _detect_early_struggle(counter, Heard(words))]
    /\ UNCHANGED <<secret_configured, serviceVars, relayVars, analysisVars, articleVars, storeVars, handlerVars, rest, svc, tutorVars,
                   bridgeVars>>

(***************************************************************************)
(* Turn registrations as tasks of the event loop                           *)
(***************************************************************************)
MaxReceived == 12
Roles == {"Learner", "Tutor"}

\* The task the event loop starts next: tasks made by asyncio.create_task
\* are started in the order of their creation.
\* Variant: the loop starts any task that is ready.
AnyReady(queue) == 1..Len(queue)
Scheduled(queue) == IF queue = <<>> THEN {} ELSE {1}

\* forward_from_elevenlabs receives a user_transcript or an agent_response
\* with a text and creates the task that registers the turn.
ReceiveTurn(role) ==
    /\ Len(received) < MaxReceived
    /\ received' = Append(received, role)
    /\ ready' = Append(ready, Len(received) + 1)
    /\ UNCHANGED <<secret_configured, bootstrap, memoryVars, opusVars, awaiting, turn_buffer, agent_turns,
                   triggered, recommendations, insights, state_cleared, relayVars, fn,
                   analysisVars, articleVars, storeVars, handlerVars, rest, svc,
                   tutorVars, bridgeVars>>

\* The cached lines as register_agent_turn reads them: every buffered text
\* is non-empty, the text of a line stands for its event.
Lines(buffered) == [i \in 1..Len(buffered) |-> Line(buffered[i].role, buffered[i].event)]

\* A task runs from its start to its first suspension: register_user_turn
\* to its end, register_agent_turn to its end or into _analyze_cluster when
\* the turn count is a multiple of CLUSTER_SIZE and the window holds
\* CLUSTER_SIZE exchanges.  pushed = FALSE: the rpush raises and the task
\* ends there.
StartTask(i, pushed) ==
    /\ i \in Scheduled(ready)
    /\ LET n == ready[i]
           role == received[n]
           counted == pushed /\ role = "Tutor"
           out == register_agent_turn(Lines(turn_buffer), agent_turns, n)
           suspends == counted /\ out.analysed
       IN  /\ ready' = SubSeq(ready, 1, i - 1) \o SubSeq(ready, i + 1, Len(ready))
           /\ turn_buffer' = IF pushed THEN Append(turn_buffer, [role |-> role, event |-> n])
                        ELSE turn_buffer
           /\ agent_turns' = IF counted THEN agent_turns + 1 ELSE agent_turns
           /\ awaiting' = IF suspends THEN awaiting \cup {n} ELSE awaiting
           /\ triggered' = IF suspends THEN [triggered EXCEPT ![n] = agent_turns + 1]
                           ELSE triggered
    /\ state_cleared' = FALSE
    /\ UNCHANGED <<secret_configured, bootstrap, memoryVars, opusVars, received, recommendations,
                   insights, relayVars, fn, analysisVars,
                   articleVars, storeVars, handlerVars, rest, svc, tutorVars,
                   bridgeVars>>

\* turn_count = redis_client.get(turn_counter_key) once the analysis has
\* returned; int(turn_count) if turn_count else 0.
turn_number(count, trigger) == count

\* The analysis returns to a registration suspended in _analyze_cluster,
\* which stores the note, the recommendation and the insight and ends.
\* ok = FALSE: the analysis or the note's commit raises and the task ends.
AnalysisReturns(n, ok) ==
    /\ n \in awaiting
    /\ awaiting' = awaiting \ {n}
    /\ recommendations' =
          IF ok /\ Len(recommendations) < MaxReceived
          THEN Append(recommendations,
                      [event |-> n, trigger |-> triggered[n],
                       turn |-> turn_number(agent_turns, triggered[n])])
          ELSE recommendations
    /\ insights' = IF ok THEN PushInsight(insights, n) ELSE insights
    /\ UNCHANGED <<secret_configured, bootstrap, memoryVars, opusVars, received, ready, turn_buffer, agent_turns,
                   triggered, state_cleared, relayVars, fn, analysisVars, articleVars, storeVars,
                   handlerVars, rest, svc, tutorVars, bridgeVars>>

\* clear_conversation_state: both cache keys are deleted and the insight
\* ring is popped; the registrations suspended in _analyze_cluster stay as
\* they are.
ClearConversationState ==
    /\ ~state_cleared
    /\ turn_buffer' = <<>>
    /\ agent_turns' = 0
    /\ insights' = <<>>
    /\ state_cleared' = TRUE
    /\ UNCHANGED <<secret_configured, bootstrap, memoryVars, opusVars, received, ready, awaiting,
                   triggered, recommendations, relayVars, fn, analysisVars, articleVars, storeVars,
                   handlerVars, rest, svc, tutorVars, bridgeVars>>

\* A conversation after Exchanged alternating exchanges whose registrations
\* have all ended: the next tutor turn can trigger the first analysis.
Exchanged == CLUSTER_SIZE - 1
InitOrder ==
    /\ received = [i \in 1..(2 * Exchanged) |-> IF i % 2 = 1 THEN "Learner" ELSE "Tutor"]
    /\ turn_buffer = [i \in 1..(2 * Exchanged) |-> [role |-> received[i], event |-> i]]
    /\ agent_turns = Exchanged
    /\ ready = <<>>
    /\ awaiting = {}
    /\ triggered = [n \in 1..MaxReceived |-> 0]
    /\ recommendations = <<>>
    /\ insights = <<>>
    /\ state_cleared = FALSE

(***************************************************************************)
(* The SmartMemory client                                                  *)
(***************************************************************************)
MaxClock == 3
MaxEntries == 2
Cooldowns == {1, 2}
MemorySessions == {"m1"}
Stages == {"search_episodic", "get_procedure", "put_procedure"}

\* MemoryService before __init__ has run.  mock is _mock_timelines: per
\* session NoTime when the session has no entry, else its number of turns.
NoMemory ==
    [constructed |-> FALSE, available |-> FALSE, strict |-> FALSE,
     fallback |-> FALSE, cooldown |-> 1, disabled_until |-> NoTime,
     last_remote_error |-> None, active |-> None,
     mock |-> [x \in MemorySessions |-> NoTime], clock |-> 0]
NoOperation ==
    [op |-> "none", attempts |-> 0, failures |-> 0, unavailable |-> FALSE,
     raised |-> FALSE, mock_read |-> FALSE, mock_written |-> FALSE,
     cooling |-> FALSE, expired |-> FALSE]

\* The cooldown window of the service is open: it was set and the clock has
\* not reached its end.
Cooling(m) == m.disabled_until # NoTime /\ m.clock < m.disabled_until
\* The window was set by a failure and is over.
Expired(m) == m.disabled_until # NoTime /\ m.clock >= m.disabled_until

\* Variant of _use_remote without the cooldown test.
_use_remote_always(m) == m.available
_use_remote(m) ==
    IF ~m.available THEN FALSE
    ELSE IF Cooling(m) THEN FALSE
    ELSE TRUE

_start_mock_session(m, session) ==
    [m EXCEPT !.active = session, !.mock[session] = 0]

_record_remote_failure(m, stage) ==
    [m EXCEPT !.last_remote_error = stage, !.disabled_until = m.clock + m.cooldown]

\* The two assignments after every remote call that returned.
RemoteSucceeded(m) ==
    [m EXCEPT !.last_remote_error = None, !.disabled_until = NoTime]

\* One guarded remote call of an operation: the service after it and what
\* it adds to the account of the operation.
RemoteCall(m, stage, ok) ==
    IF _use_remote(m)
    THEN [m |-> IF ok THEN RemoteSucceeded(m) ELSE _record_remote_failure(m, stage),
          attempts |-> 1, failures |-> IF ok THEN 0 ELSE 1, unavailable |-> FALSE]
    ELSE [m |-> m, attempts |-> 0, failures |-> 0, unavailable |-> TRUE]

\* put_turn_memory.
put_turn_memory(m, session, ok) ==
    LET call == RemoteCall(m, "put_turn_memory", ok)
        stored == call.attempts = 1 /\ call.failures = 0
        absorbed == call.failures = 1 /\ ~m.fallback
    IN  [m |-> IF stored \/ absorbed THEN call.m
               ELSE [call.m EXCEPT !.mock[session] =
                        IF @ = NoTime THEN 1 ELSE IF @ < MaxEntries THEN @ + 1 ELSE @],
         call |-> call, raised |-> FALSE,
         mock_written |-> ~stored /\ ~absorbed]

\* MemoryService.__init__ under the settings given.
MemoryServiceInit(available, strict, allow, cooldown) ==
    /\ ~memory.constructed
    /\ memory' = [NoMemory EXCEPT !.constructed = TRUE, !.available = available,
                                  !.strict = strict,
                                  !.fallback = ((allow \/ ~available) /\ ~strict),
                                  !.cooldown = cooldown]
    /\ last_memory' = [NoOperation EXCEPT !.op = "__init__"]
    /\ UNCHANGED <<secret_configured, bootstrap, opusVars, orderVars, relayVars, fn, analysisVars,
                   articleVars, storeVars, handlerVars, rest, svc, tutorVars,
                   bridgeVars>>

\* datetime.utcnow() advances by one second.
ClockTicks ==
    /\ memory.constructed /\ memory.clock < MaxClock
    /\ memory' = [memory EXCEPT !.clock = @ + 1]
    /\ last_memory' = [NoOperation EXCEPT !.op = "tick", !.cooling = Cooling(memory),
                                     !.expired = Expired(memory)]
    /\ UNCHANGED <<secret_configured, bootstrap, opusVars, orderVars, relayVars, fn, analysisVars,
                   articleVars, storeVars, handlerVars, rest, svc, tutorVars,
                   bridgeVars>>

\* start_session; session is the id the platform answers or the mock id.
MemoryStartSession(session, ok) ==
    /\ memory.constructed
    /\ LET call == RemoteCall(memory, "start_session", ok)
           started_remote == call.attempts = 1 /\ ok
           raised == ~started_remote /\ (memory.strict \/ ~memory.fallback)
       IN  /\ memory' = IF started_remote THEN [call.m EXCEPT !.active = session]
                        ELSE IF raised THEN call.m
                        ELSE _start_mock_session(call.m, session)
           /\ last_memory' = [op |-> "start_session", attempts |-> call.attempts,
                              failures |-> call.failures,
                              unavailable |-> call.unavailable, raised |-> raised,
                              mock_read |-> FALSE,
                              mock_written |-> ~started_remote /\ ~raised,
                              cooling |-> Cooling(memory),
                              expired |-> Expired(memory)]
    /\ UNCHANGED <<secret_configured, bootstrap, opusVars, orderVars, relayVars, fn, analysisVars,
                   articleVars, storeVars, handlerVars, rest, svc, tutorVars,
                   bridgeVars>>

MemoryPutTurn(session, ok) ==
    /\ memory.constructed
    /\ LET out == put_turn_memory(memory, session, ok)
       IN  /\ memory' = out.m
           /\ last_memory' = [op |-> "put_turn_memory", attempts |-> out.call.attempts,
                              failures |-> out.call.failures,
                              unavailable |-> out.call.unavailable,
                              raised |-> out.raised, mock_read |-> FALSE,
                              mock_written |-> out.mock_written,
                              cooling |-> Cooling(memory),
                              expired |-> Expired(memory)]
    /\ UNCHANGED <<secret_configured, bootstrap, opusVars, orderVars, relayVars, fn, analysisVars,
                   articleVars, storeVars, handlerVars, rest, svc, tutorVars,
                   bridgeVars>>

\* search_working_memory on its own.
MemorySearch(session, ok) ==
    /\ memory.constructed
    /\ LET call == RemoteCall(memory, "search_working_memory", ok)
       IN  /\ memory' = call.m
           /\ last_memory' = [op |-> "search_working_memory",
                              attempts |-> call.attempts, failures |-> call.failures,
                              unavailable |-> call.unavailable, raised |-> FALSE,
                              mock_read |-> call.unavailable /\ ~memory.strict,
                              mock_written |-> FALSE, cooling |-> Cooling(memory),
                              expired |-> Expired(memory)]
    /\ UNCHANGED <<secret_configured, bootstrap, opusVars, orderVars, relayVars, fn, analysisVars,
                   articleVars, storeVars, handlerVars, rest, svc, tutorVars,
                   bridgeVars>>

\* end_session with flush: two searches of the working memory, the remote
\* end of the session, the two pops and update_semantic_patterns.
MemoryEndSession(session, ok1, ok2, ok3, ok4) ==
    /\ memory.constructed
    /\ LET s1 == RemoteCall(memory, "search_working_memory", ok1)
           s2 == RemoteCall(s1.m, "search_working_memory", ok2)
           e == RemoteCall(s2.m, "end_session", ok3)
           raised == e.failures = 1 /\ ~memory.fallback
           popped == [e.m EXCEPT !.active = IF @ = session THEN None ELSE @,
                                 !.mock[session] = NoTime]
           u == RemoteCall(popped, "put_semantic_memory", ok4)
       IN  /\ memory' = IF raised THEN e.m ELSE u.m
           /\ last_memory' =
                [op |-> "end_session",
                 attempts |-> s1.attempts + s2.attempts + e.attempts
                              + (IF raised THEN 0 ELSE u.attempts),
                 failures |-> s1.failures + s2.failures + e.failures
                              + (IF raised THEN 0 ELSE u.failures),
                 unavailable |-> s1.unavailable \/ s2.unavailable \/ e.unavailable,
                 raised |-> raised,
                 mock_read |-> (s1.unavailable \/ s2.unavailable) /\ ~memory.strict,
                 mock_written |-> ~raised /\ memory.mock[session] # NoTime,
                 cooling |-> Cooling(memory),
                              expired |-> Expired(memory)]
    /\ UNCHANGED <<secret_configured, bootstrap, opusVars, orderVars, relayVars, fn, analysisVars,
                   articleVars, storeVars, handlerVars, rest, svc, tutorVars,
                   bridgeVars>>

\* search_episodic, get_procedural_template, put_procedural_template: one
\* guarded remote call, nothing on the mock side.
MemoryRemoteOnly(stage, ok) ==
    /\ memory.constructed
    /\ LET call == RemoteCall(memory, stage, ok)
       IN  /\ memory' = call.m
           /\ last_memory' = [op |-> stage, attempts |-> call.attempts,
                              failures |-> call.failures,
                              unavailable |-> call.unavailable, raised |-> FALSE,
                              mock_read |-> FALSE, mock_written |-> FALSE,
                              cooling |-> Cooling(memory),
                              expired |-> Expired(memory)]
    /\ UNCHANGED <<secret_configured, bootstrap, opusVars, orderVars, relayVars, fn, analysisVars,
                   articleVars, storeVars, handlerVars, rest, svc, tutorVars,
                   bridgeVars>>

InitMemory ==
    /\ memory = NoMemory
    /\ last_memory = NoOperation

(***************************************************************************)
(* The local translation model                                             *)
(***************************************************************************)
MaxCalls == 4
Callers3 == {1, 2, 3}
NoCaller == 0
Idle == [kind |-> "none", pc |-> "idle"]

\* asyncio.Lock: a caller enters the block only while nobody holds the lock.
\* Variant: the block is entered whoever holds the lock.
LockIgnored(o) == TRUE
LockFree(o) == o.lock = NoCaller

\* The callers whose _load_model is running in the executor.
Loading == {c \in Callers3 : callers[c].pc \in {"loading", "sync_loading"}}

\* What a caller does once it has left the locked block.
AfterLock(c) ==
    IF callers[c].kind = "translate" THEN [callers[c] EXCEPT !.pc = "translating"]
    ELSE Idle

\* translate() or initialize() is called.  empty: the text is blank.
OpusCall(c, kind, empty) ==
    /\ callers[c] = Idle /\ opus.calls < MaxCalls
    /\ opus' = [opus EXCEPT !.calls = @ + 1]
    /\ callers' = [callers EXCEPT ![c] =
                      IF kind = "translate" /\ empty THEN Idle
                      ELSE IF kind = "initialize" /\ opus.initialized THEN Idle
                      ELSE [kind |-> kind, pc |-> "acquire"]]
    /\ UNCHANGED <<secret_configured, bootstrap, orderVars, memoryVars, relayVars, fn,
                   analysisVars, articleVars, storeVars, handlerVars, rest, svc,
                   tutorVars, bridgeVars>>

\* async with _model_lock: the caller enters; with the model present it
\* leaves the block at once, else it starts _load_model in the executor.
OpusEnter(c) ==
    /\ callers[c].pc = "acquire" /\ LockFree(opus)
    /\ IF opus.model
       THEN /\ callers' = [callers EXCEPT ![c] = AfterLock(c)]
            /\ opus' = [opus EXCEPT !.initialized =
                           @ \/ callers[c].kind = "initialize"]
       ELSE /\ callers' = [callers EXCEPT ![c].pc = "loading"]
            /\ opus' = [opus EXCEPT !.lock = c]
    /\ UNCHANGED <<secret_configured, bootstrap, orderVars, memoryVars, relayVars, fn,
                   analysisVars, articleVars, storeVars, handlerVars, rest, svc,
                   tutorVars, bridgeVars>>

\* _load_model ends in the executor: the model is set, or RuntimeError is
\* raised through the block to the caller.  The lock is released.
OpusLoadEnds(c, ok) ==
    /\ callers[c].pc = "loading"
    /\ callers' = [callers EXCEPT ![c] = IF ok THEN AfterLock(c) ELSE Idle]
    /\ opus' = [opus EXCEPT !.lock = IF @ = c THEN NoCaller ELSE @,
                            !.model = @ \/ ok,
                            !.initialized = @ \/ (ok /\ callers[c].kind = "initialize"),
                            !.succeeded = IF ok THEN @ + 1 ELSE @,
                            !.failed = IF ok THEN @ ELSE @ + 1]
    /\ UNCHANGED <<secret_configured, bootstrap, orderVars, memoryVars, relayVars, fn,
                   analysisVars, articleVars, storeVars, handlerVars, rest, svc,
                   tutorVars, bridgeVars>>

\* translate_sync in the executor: a cache hit returns, else _load_model is
\* called outside the lock and loads when the model is absent.
OpusTranslateSync(c, cached, ok) ==
    /\ callers[c].pc \in {"translating", "sync_loading"}
    /\ IF callers[c].pc = "translating" /\ ~cached /\ ~opus.model
       THEN /\ callers' = [callers EXCEPT ![c].pc = "sync_loading"]
            /\ UNCHANGED opus
       ELSE /\ callers' = [callers EXCEPT ![c] = Idle]
            /\ opus' = IF callers[c].pc = "sync_loading"
                       THEN [opus EXCEPT !.model = @ \/ ok,
                                         !.succeeded = IF ok THEN @ + 1 ELSE @,
                                         !.failed = IF ok THEN @ ELSE @ + 1]
                       ELSE opus
    /\ UNCHANGED <<secret_configured, bootstrap, orderVars, memoryVars, relayVars, fn,
                   analysisVars, articleVars, storeVars, handlerVars, rest, svc,
                   tutorVars, bridgeVars>>

InitOpus ==
    /\ opus = [lock |-> NoCaller, model |-> FALSE, initialized |-> FALSE,
               calls |-> 0, succeeded |-> 0, failed |-> 0]
    /\ callers = [c \in Callers3 |-> Idle]

(***************************************************************************)
(* The PostgreSQL bootstrap                                                *)
(***************************************************************************)
\* The statements of _ensure_note_type_values, in order: extension and id
\* default, creation of the enum, and one addition per label.
Statements == 1..5
AddedLabels == {"FLUENCY", "PRONUNCIATION", "VOCABULARY"}
EnumLabels == {"GRAMMAR", "VOCAB", "VOCABULARY", "PRONUNCIATION", "FLUENCY",
               "TOPIC_MENTION", "CLUSTER"}
LabelOf(i) == CASE i = 3 -> "FLUENCY" [] i = 4 -> "PRONUNCIATION" [] OTHER -> "VOCABULARY"

\* The databases the bootstrap may find: with or without the extension, and
\* with the enum absent or holding the older labels and some of the added.
OlderLabels == EnumLabels \ AddedLabels
Databases ==
    {[pgcrypto |-> x, notetype |-> t, labels |-> l] :
        x \in BOOLEAN, t \in {TRUE}, l \in {OlderLabels \cup a : a \in SUBSET AddedLabels}}
    \cup {[pgcrypto |-> x, notetype |-> FALSE, labels |-> {}] : x \in BOOLEAN}

\* The database after statement i has run in it without error.
Executed(db, i) ==
    CASE i = 1 -> [db EXCEPT !.pgcrypto = TRUE]
      [] i = 2 -> IF db.notetype THEN db
                  ELSE [db EXCEPT !.notetype = TRUE, !.labels = EnumLabels]
      [] OTHER -> [db EXCEPT !.labels = @ \cup {LabelOf(i)}]

\* Statement i raises in the database by itself: a label is added to an
\* enum that does not exist.
RaisesIn(db, i) == i >= 3 /\ ~db.notetype

NoBootstrap ==
    [pc |-> "import", next |-> 1, attempted |-> {}, failed |-> {}, warnings |-> 0,
     db |-> [pgcrypto |-> FALSE, notetype |-> FALSE, labels |-> {}]]

\* db_service is imported: _ensure_note_type_values returns at once for a
\* URL that is not PostgreSQL, else opens the connection.
BootstrapBegins(postgresql, db) ==
    /\ bootstrap.pc = "import"
    /\ bootstrap' = [bootstrap EXCEPT !.pc = IF postgresql THEN "statements" ELSE "skipped",
                                      !.db = db]
    /\ UNCHANGED <<secret_configured, orderVars, memoryVars, opusVars, relayVars, fn,
                   analysisVars, articleVars, storeVars, handlerVars, rest, svc,
                   tutorVars, bridgeVars>>

\* One turn of the for loop.  ok = FALSE: the driver raises (privilege,
\* connection, lock); the except branch warns and breaks out of the loop.
BootstrapStatement(ok) ==
    /\ bootstrap.pc = "statements"
    /\ LET i == bootstrap.next
           raised == ~ok \/ RaisesIn(bootstrap.db, i)
       IN  bootstrap' =
             [bootstrap EXCEPT
                !.attempted = @ \cup {i},
                !.failed = IF raised THEN @ \cup {i} ELSE @,
                !.warnings = IF raised THEN @ + 1 ELSE @,
                !.db = IF raised THEN @ ELSE Executed(@, i),
                !.next = IF raised \/ i = 5 THEN @ ELSE i + 1,
                !.pc = IF raised \/ i = 5 THEN "done" ELSE "statements"]
    /\ UNCHANGED <<secret_configured, orderVars, memoryVars, opusVars, relayVars, fn,
                   analysisVars, articleVars, storeVars, handlerVars, rest, svc,
                   tutorVars, bridgeVars>>

InitBootstrap == bootstrap = NoBootstrap

InitServices ==
    /\ InitOrder
    /\ InitBootstrap
    /\ InitOpus
    /\ InitMemory

(***************************************************************************)
(* Specifications                                                          *)
(***************************************************************************)
InitStore ==
    /\ users = {}
    /\ conversations = [c \in ConvIds |-> NoRow]
    /\ summaries = {}
    /\ active_sessions = [c \in ConvIds |-> NoSession]
    /\ now = 0

InitHandler ==
    /\ hpc = "idle"
    /\ h = IdleHandler
    /\ ws = NoSocket
    /\ connections = 0

InitObservers ==
    /\ rest = NoCall
    /\ svc = NoServiceCall
    /\ fn = NoApplication
    /\ InitAnalyses
    /\ redis_client = TRUE
    /\ InitRelay
    /\ InitServices

InitTutor ==
    /\ transcript = [c \in ConvIds |-> <<>>]
    /\ turn_count = [c \in ConvIds |-> 0]
    /\ cluster_results = [c \in ConvIds |-> <<>>]
    /\ last_turn = NoTurn

\* A bridge as __init__ leaves it.
FreshBridge ==
    /\ user_turn_counter = 0
    /\ _soft_beginner_activated = FALSE
    /\ local_transcript = <<>>
    /\ upstream = <<>>
    /\ activated_at = 0
    /\ overlay_failed = FALSE
    /\ last_event = NoEvent
    /\ events = 0

\* The bridge after the learner answered "si" four times and the tutor
\* replied to each: a state FreshBridge reaches in eight events.
StrugglingEntries ==
    LET t == CHOOSE u \in TutorUtterances : TRUE
    IN  <<Entry("user", Si), Entry("tutor", t), Entry("user", Si), Entry("tutor", t),
          Entry("user", Si), Entry("tutor", t), Entry("user", Si), Entry("tutor", t)>>

StrugglingBridge ==
    /\ user_turn_counter = SOFT_BEGINNER_TURN_THRESHOLD
    /\ _soft_beginner_activated = TRUE
    /\ local_transcript = StrugglingEntries
    /\ upstream = <<"overlay">>
    /\ activated_at = 0
    /\ overlay_failed = FALSE
    /\ last_event = [NoEvent EXCEPT !.kind = "agent", !.was_active = TRUE]
    /\ events = 0

\* ---- the voice WebSocket handler ----
HandlerDifficulties == {"beginner"}
HandlerAdaptive == {TRUE}
HandlerSessionIds == {"c1", None}

Init ==
    /\ secret_configured \in BOOLEAN
    /\ InitStore /\ InitHandler /\ InitObservers /\ InitArticles /\ InitTutor
    /\ FreshBridge

Next ==
    \/ \E token \in Tokens : WsRejected(token)
    \/ \E token \in {t \in Tokens : validate_ws_token(t).ok},
          session_id \in HandlerSessionIds, difficulty \in HandlerDifficulties,
          adaptive \in HandlerAdaptive, fresh \in FreshIds \cup {None},
          prep \in {"ok", "error", "agent_invalid"},
          notify \in {"ok", "disconnect", "error"}, delivered \in BOOLEAN :
            WsConnect(token, session_id, difficulty, adaptive, fresh, prep,
                      notify, delivered)
    \/ RelayUserTurn
    \/ RelayAgentTurn
    \/ \E delivered \in BOOLEAN : StartRaises(delivered)
    \/ \E reason \in BridgeExits, generated \in BOOLEAN : BridgeReturns(reason, generated)
    \/ \E delivered \in BOOLEAN, generated \in BOOLEAN : SessionTimeout(delivered, generated)
    \/ WsReset

Spec == Init /\ [][Next]_vars

\* ---- the session manager ----
InitSessions ==
    /\ secret_configured = TRUE
    /\ InitStore /\ InitHandler /\ InitObservers /\ InitArticles /\ InitTutor
    /\ FreshBridge

NextSessions ==
    \/ \E user_id \in UserIds, conversation_id \in SessionIds,
          difficulty \in {"beginner", None}, adaptive \in {"true", None},
          fresh \in FreshIds \cup {None} :
            CreateSession(user_id, conversation_id, difficulty, adaptive, fresh)
    \/ \E conversation_id \in ConvIds : EndSession(conversation_id)

SpecSessions == InitSessions /\ [][NextSessions]_vars

\* ---- the conversation endpoints over the session manager ----
NextEndpoints ==
    \/ \E user_id \in UserIds, conversation_id \in HandlerSessionIds,
          fresh \in FreshIds \cup {None} :
            CreateSession(user_id, conversation_id, "beginner", "true", fresh)
    \/ \E conversation_id \in ConvIds : EndSession(conversation_id)
    \/ \E conversation_id \in ConvIds : StoreSummary(conversation_id)
    \/ \E conversation_id \in PathIds, auth_user_id \in Callers :
            GetConversation(conversation_id, auth_user_id)
    \/ \E conversation_id \in PathIds, auth_user_id \in Callers :
            GetConversationSummary(conversation_id, auth_user_id)
    \/ \E conversation_id \in PathIds, auth_user_id \in Callers :
            GetConversationAnalysis(conversation_id, auth_user_id)

SpecEndpoints == InitSessions /\ [][NextEndpoints]_vars

\* ---- the tutor brain ----
NextTutor ==
    \/ \E user_text \in {EmptyText, NextText} : RegisterUserTurn(user_text)
    \/ \E agent_text \in {EmptyText, NextText} : RegisterAgentTurn(agent_text)

SpecTutor == InitSessions /\ [][NextTutor]_vars

\* ---- the bridge ----
InitBridge ==
    /\ secret_configured = TRUE
    /\ InitStore /\ InitHandler /\ InitObservers /\ InitArticles /\ InitTutor
    /\ (FreshBridge \/ StrugglingBridge)

NextBridge ==
    \/ \E text \in LearnerUtterances, overlay_ok \in BOOLEAN, graduation_ok \in BOOLEAN :
            UserTranscript(text, overlay_ok, graduation_ok)
    \/ \E text \in TutorUtterances : AgentResponse(text)

SpecBridge == InitBridge /\ [][NextBridge]_vars

\* ---- the relay loops ----
NextRelay ==
    \/ \E struggle \in BOOLEAN, pushed \in BOOLEAN, sent \in BOOLEAN :
            RelayUserTranscript(struggle, pushed, sent)
    \/ \E sent \in BOOLEAN : RelayAgentResponse(sent)
    \/ UpstreamCloses
    \/ \E type \in {"audio", "end"}, forwarded \in BOOLEAN :
            RelayLearnerMessage(type, forwarded)
    \/ \E kind \in TaskKinds, ok \in BOOLEAN : TaskRuns(kind, ok)
    \/ StartCompletes

SpecRelay == InitSessions /\ [][NextRelay]_vars

\* ---- the relay loops with the keepalive timer and the session cap ----
NextKeepalive ==
    \/ \E struggle \in BOOLEAN, pushed \in BOOLEAN, sent \in BOOLEAN :
            RelayUserTranscript(struggle, pushed, sent)
    \/ \E sent \in BOOLEAN : RelayAgentResponse(sent)
    \/ \E sent \in BOOLEAN : RelayAudioEvent(sent)
    \/ UpstreamCloses
    \/ \E type \in {"audio", "end"}, forwarded \in BOOLEAN :
            RelayLearnerMessage(type, forwarded)
    \/ KeepaliveElapses
    \/ StartCompletes
    \/ StartCancelled

SpecKeepalive == InitSessions /\ [][NextKeepalive]_vars

\* ---- the weekly article import ----
NextArticles ==
    \/ \E request \in Requests, url \in Urls, fetched \in BOOLEAN :
            ImportArticleFetch(request, url, fetched)
    \/ \E request \in Requests, summarised \in BOOLEAN, deactivated \in BOOLEAN,
          inserted \in BOOLEAN :
            ImportArticleStore(request, summarised, deactivated, inserted)

SpecArticles == InitSessions /\ [][NextArticles]_vars

\* ---- the article analyses, with one article imported ----
NextAnalyses ==
    \/ \E request \in Requests, article_id \in ArticleIds, user_id \in UserIds,
          row \in 0..MaxGenerations :
            GetOrCreateAnalysis(request, article_id, user_id, row)
    \/ \E request \in Requests, answered \in BOOLEAN, value \in Generated,
          inserted \in BOOLEAN :
            StoreAnalysis(request, answered, value, inserted)

\* The store after one import_article call has returned.
InitOneArticle ==
    /\ secret_configured = TRUE
    /\ InitStore /\ InitHandler /\ InitObservers /\ InitTutor /\ FreshBridge
    /\ weekly_articles = <<WeeklyArticle("url1", TRUE)>>
    /\ importers = [r \in Requests |-> NoImport]
    /\ imported = [request |-> 1, ok |-> TRUE, id |-> 1, before |-> {}]

SpecAnalyses == InitOneArticle /\ [][NextAnalyses]_vars

\* ---- the turn registrations of one bridge ----
NextOrder ==
    \/ \E role \in Roles : ReceiveTurn(role)
    \/ \E i \in 1..MaxReceived, pushed \in BOOLEAN : StartTask(i, pushed)
    \/ \E n \in 1..MaxReceived, ok \in BOOLEAN : AnalysisReturns(n, ok)
    \/ ClearConversationState

SpecOrder == InitSessions /\ [][NextOrder]_vars

\* ---- the SmartMemory client ----
NextMemory ==
    \/ \E available \in BOOLEAN, strict \in BOOLEAN, allow \in BOOLEAN,
          cooldown \in Cooldowns :
            MemoryServiceInit(available, strict, allow, cooldown)
    \/ ClockTicks
    \/ \E session \in MemorySessions, ok \in BOOLEAN : MemoryStartSession(session, ok)
    \/ \E session \in MemorySessions, ok \in BOOLEAN : MemoryPutTurn(session, ok)
    \/ \E session \in MemorySessions, ok \in BOOLEAN : MemorySearch(session, ok)
    \/ \E session \in MemorySessions, ok1 \in BOOLEAN, ok2 \in BOOLEAN,
          ok3 \in BOOLEAN, ok4 \in BOOLEAN :
            MemoryEndSession(session, ok1, ok2, ok3, ok4)
    \/ \E stage \in Stages, ok \in BOOLEAN : MemoryRemoteOnly(stage, ok)

SpecMemory == InitSessions /\ [][NextMemory]_vars

\* ---- the local translation model ----
NextOpus ==
    \/ \E c \in Callers3, kind \in {"translate", "initialize"}, empty \in BOOLEAN :
            OpusCall(c, kind, empty)
    \/ \E c \in Callers3 : OpusEnter(c)
    \/ \E c \in Callers3, ok \in BOOLEAN : OpusLoadEnds(c, ok)
    \/ \E c \in Callers3, cached \in BOOLEAN, ok \in BOOLEAN :
            OpusTranslateSync(c, cached, ok)

SpecOpus == InitSessions /\ [][NextOpus]_vars

\* ---- the PostgreSQL bootstrap ----
NextBootstrap ==
    \/ \E postgresql \in BOOLEAN, db \in Databases : BootstrapBegins(postgresql, db)
    \/ \E ok \in BOOLEAN : BootstrapStatement(ok)

SpecBootstrap == InitSessions /\ [][NextBootstrap]_vars

\* ---- functions on their own ----
NextFunctions ==
    \/ /\ fn = NoApplication
       /\ \E counter \in 0..MaxTurn, words \in Transcripts :
            DetectEarlyStruggle(counter, words)
    \/ /\ fn = NoApplication
       /\ \E total \in 0..MaxNotes, p1 \in {0, 1, 2, 4, 14}, p2 \in {0, 1, 2, 3, 10},
             fluency \in {0, 7, 8, 9, 35} :
            DetermineStartingDifficulty(total, p1, p2, fluency)
    \/ /\ fn = NoApplication
       /\ \E raw_type \in RawKinds, priority \in Priorities :
            SaveLearningNote(raw_type, priority)
    \/ /\ fn = NoApplication
       /\ \E api_key \in BOOLEAN, text \in SourceTexts, first \in ModelReplies,
             second \in ModelReplies, fallback \in FallbackReplies,
             fail_on_untranslated \in BOOLEAN :
            TranslateText(api_key, text, first, second, fallback, fail_on_untranslated)
    \/ /\ fn = NoApplication
       /\ \E b \in {Unconfigured, "agent_b"}, i \in {Unconfigured, "agent_i"},
             a \in {Unconfigured, "agent_a"}, difficulty \in AskedDifficulties :
            GetAgent(SPANISH_AGENTS(b, i, a), difficulty)
    \/ /\ fn = NoApplication
       /\ \E priority \in GuidancePriorities, guidance \in GuidanceTexts,
             upstream_ok \in BOOLEAN, learner_ok \in BOOLEAN :
            HandleGuidance([priority |-> priority, guidance |-> guidance],
                           upstream_ok, learner_ok)
    \/ /\ fn = NoApplication
       /\ \E pcm \in Payloads : PcmToWav(pcm)
    \/ /\ fn = NoApplication
       /\ \E entries \in StrugglePatterns : ShouldPreactivate(entries)
    \/ /\ fn = NoApplication
       /\ \E signatures \in SignatureStores, api_key \in BOOLEAN, client \in BOOLEAN,
             user_id \in {None, "u1"}, response \in GeminiResponses,
             fallback \in BOOLEAN :
               AnalyzeTurnCluster(signatures, api_key, client, user_id, response,
                                  fallback)

SpecFunctions == InitSessions /\ [][NextFunctions]_vars

(***************************************************************************)
(* Properties                                                              *)
(***************************************************************************)
\* How often a frame or an update occurs in a sequence.
Count(seq, x) == Cardinality({i \in 1..Len(seq) : seq[i] = x})

\* A token the gateway must refuse, by the defects the contract lists.
InvalidToken(token) ==
    \/ ~secret_configured
    \/ token.sig # "ok"
    \/ token.expired
    \/ ~token.iss_ok
    \/ ~token.aud_ok
    \/ token.sub = MissingSub

\* C1: when the handler has finished a connection whose token fails
\* validation (bad signature, expired, wrong issuer or audience, missing
\* subject, or no signing secret), the socket was closed with 1008 and never
\* accepted, no frame was sent, and the users, the conversations and the
\* active sessions are what they were when the connection came in.
C1_InvalidTokenClosedUnaccepted ==
    (hpc = "done" /\ h.token # NoToken /\ InvalidToken(h.token))
        => /\ ~ws.accepted
           /\ ws.close_code = PolicyViolation
           /\ ws.frames = <<>>
           /\ h.session = None
           /\ users = h.before.users
           /\ conversations = h.before.conversations
           /\ active_sessions = h.before.active_sessions

\* An expired token is refused while a session of an earlier connection is
\* on record.
C1_Witness ==
    /\ hpc = "done"
    /\ secret_configured
    /\ h.token.expired /\ h.token.sig = "ok" /\ h.token.sub = UuidStr("u1")
    /\ ~ws.accepted /\ ws.close_code = PolicyViolation
    /\ conversations["c1"] # NoRow
    /\ conversations = h.before.conversations

\* C2: whenever the detail, summary or analysis endpoint answers a caller
\* about a conversation owned by somebody else, the answer is 403 and
\* carries none of the conversation's data.
C2_OtherCallerForbidden ==
    (/\ rest.endpoint \in {"detail", "summary", "analysis"}
     /\ rest.owner # None
     /\ rest.caller.uuid # rest.owner)
        => rest.response = Response(403, NoBody)

\* u2 asks for the stored summary of u1's conversation and gets 403.
C2_Witness ==
    /\ rest.endpoint = "summary"
    /\ rest.owner = "u1"
    /\ rest.caller = UuidStr("u2")
    /\ rest.conversation_id \in summaries
    /\ rest.response.status = 403

\* C3: when the handler has finished because MAX_SESSION_MINUTES elapsed, it
\* has sent one session_timeout frame (delivered, or lost with the learner's
\* socket) and the conversation row's end_time is set.
C3_TimeoutPersistsEndTime ==
    (hpc = "done" /\ h.exit = "timeout")
        => /\ Count(ws.frames, "session_timeout") + Count(ws.lost, "session_timeout") = 1
           /\ conversations[h.session].end_time # NoTime

\* C4: when the handler has finished a connection for which create_session
\* succeeded, the session is no longer in the active-session map and the
\* conversation row's end_time is set.
C4_FinishedSessionEnded ==
    (hpc = "done" /\ h.session # None)
        => /\ active_sessions[h.session] = NoSession
           /\ conversations[h.session].end_time # NoTime

\* C5: when the handler has finished a connection that had a bridge, the
\* conversation's cached transcript buffer and turn counter are gone.
C5_TeardownClearsTutorState ==
    (hpc = "done" /\ h.conversation)
        => /\ transcript[h.session] = <<>>
           /\ turn_count[h.session] = 0

\* C6: every session in the active-session map has a conversation row
\* whose end_time is absent.
C6_ActiveSessionsHaveOpenRows ==
    \A c \in ConvIds :
        active_sessions[c] # NoSession
            => conversations[c] # NoRow /\ conversations[c].end_time = NoTime

\* C7: create_session called with the id of a row of another user returns a
\* session, has created a row owned by the caller, and has left the other
\* user's row as it was.
C7_CrossUserCreatesOwnRow ==
    (/\ svc.op = "create_session"
     /\ svc.conversation_id \in ConvIds
     /\ svc.before[svc.conversation_id] # NoRow
     /\ svc.before[svc.conversation_id].user_id # svc.user_id)
        => /\ ~svc.raised
           /\ svc.session # None
           /\ \E c \in ConvIds : /\ svc.before[c] = NoRow
                                 /\ conversations[c] # NoRow
                                 /\ conversations[c].user_id = svc.user_id
           /\ conversations[svc.conversation_id] = svc.before[svc.conversation_id]

\* The exchanges of the whole buffered conversation.
AllExchanges == _parse_transcript_from_redis(transcript[TutorConversation])
\* The exchanges read from the last 2 * CLUSTER_SIZE buffered lines.
WindowExchanges ==
    _parse_transcript_from_redis(LastN(transcript[TutorConversation], 2 * CLUSTER_SIZE))

\* C8: registering the k-th tutor turn calls the cluster analysis once when
\* k is a multiple of CLUSTER_SIZE and the last 2 * CLUSTER_SIZE buffered
\* lines hold at least CLUSTER_SIZE exchanges, and not at all otherwise; the
\* analysis is given the CLUSTER_SIZE most recent exchanges of the
\* conversation and nothing else.
C8_ClusterEveryFourthTurnWithFullWindow ==
    (last_turn.op = "agent" /\ last_turn.registered)
        => /\ last_turn.k = turn_count[TutorConversation]
           /\ last_turn.analysed <=>
                (last_turn.k % CLUSTER_SIZE = 0 /\ Len(WindowExchanges) >= CLUSTER_SIZE)
           /\ last_turn.analysed =>
                /\ Len(last_turn.cluster) = CLUSTER_SIZE
                /\ last_turn.cluster = LastN(AllExchanges, CLUSTER_SIZE)
           /\ ~last_turn.analysed => last_turn.cluster = <<>>

\* C8 as stated: the k-th tutor turn is analysed exactly when k is a
\* multiple of CLUSTER_SIZE.
C8_ClusterEveryFourthTurn ==
    (last_turn.op = "agent" /\ last_turn.registered)
        => (last_turn.analysed <=> last_turn.k % CLUSTER_SIZE = 0)

\* The 8th tutor turn is analysed, after the 4th was, with four exchanges.
C8_Witness ==
    /\ last_turn.op = "agent"
    /\ last_turn.k = 2 * CLUSTER_SIZE
    /\ last_turn.analysed
    /\ Len(last_turn.cluster) = CLUSTER_SIZE
    /\ Len(cluster_results[TutorConversation]) = 2

\* Overlay updates the platform received since the mode was last activated.
OverlaysInWindow ==
    Count(SubSeq(upstream, activated_at + 1, Len(upstream)), "overlay")

LearnerLastFour == LastN(ContentsOf(local_transcript, "user"), ConfidenceSpan)
QualifyingEntries ==
    Cardinality({i \in 1..Len(LearnerLastFour) :
                    /\ LearnerLastFour[i].words >= 4
                    /\ LearnerLastFour[i].marker \notin ConfidenceMarkers})

\* C10: after a learner transcript handled with soft-beginner mode active
\* and the turn counter at 8 or more, the activation flag has been cleared
\* exactly when at least 3 of the learner's last 4 transcript entries have 4
\* or more words and no English-confusion marker; before turn 8 it is never
\* cleared.
C10_GraduationExactlyWhenConfident ==
    (last_event.kind = "user" /\ last_event.was_active)
        => (last_event.graduated <=>
                (/\ user_turn_counter >= SOFT_BEGINNER_GRADUATION_MIN_TURNS
                 /\ QualifyingEntries >= ConfidenceNeeded))

C12_ImportLeavesOnlyNewArticleActive ==
    imported.ok =>
        /\ ActiveArticles(weekly_articles) = {imported.id}
        /\ imported.id = Len(weekly_articles)
        /\ imported.id \notin imported.before
        /\ \A i \in imported.before : ~weekly_articles[i].is_active

\* A third import has returned while an article was active.
C12_Witness ==
    /\ imported.ok
    /\ imported.id = 3
    /\ imported.before = {2}
    /\ ActiveArticles(weekly_articles) = {3}

\* C13: a get_or_create_analysis call that starts after calls for the same
\* (article, user) pair have returned an analysis requests no generation and
\* returns the content those earlier calls returned.
C13_LaterCallReturnsFirstContent ==
    (analysed.request # 0 /\ analysed.seen # {}) =>
        /\ analysed.ok /\ ~analysed.generated
        /\ analysed.seen = {analysed.content}

\* C14: determine_starting_difficulty returns beginner whenever the window
\* of the 50 newest notes holds fewer than 35 notes (none included),
\* whatever their priorities and kinds, and whenever it holds 35 notes or
\* more of which at least 28% have priority at most 2.
C14_BeginnerBelowFloorOrSevere ==
    fn.op = "determine_starting_difficulty" =>
        LET w == fn.recent_notes
            severe == w.by_priority[1] + w.by_priority[2]
        IN  (\/ w.note_count < 35
             \/ w.note_count >= 35 /\ 100 * severe >= 28 * w.note_count)
                => fn.result = "beginner"

\* 34 notes, none severe, all of kind FLUENCY: beginner.
C14_Witness ==
    /\ fn.op = "determine_starting_difficulty"
    /\ fn.recent_notes.note_count = 34
    /\ fn.recent_notes.by_priority[1] + fn.recent_notes.by_priority[2] = 0
    /\ fn.recent_notes.fluency >= 8
    /\ fn.result = "beginner"

\* C15: with at least 35 notes in the window and a severe rate below 0.28,
\* determine_starting_difficulty returns advanced exactly when the window
\* holds at least 8 FLUENCY notes and the severe rate is at most 0.08, and
\* intermediate otherwise.
C15_AdvancedExactlyOnFluencyAndLowSevereRate ==
    fn.op = "determine_starting_difficulty" =>
        LET w == fn.recent_notes
            severe == w.by_priority[1] + w.by_priority[2]
        IN  (w.note_count >= 35 /\ 100 * severe < 28 * w.note_count) =>
                /\ fn.result = "advanced"
                      <=> (w.fluency >= 8 /\ 100 * severe <= 8 * w.note_count)
                /\ fn.result \in {"advanced", "intermediate"}

\* 50 notes in the window, 4 of them severe (a rate of exactly 0.08), 8 of
\* kind FLUENCY: advanced.
C15_Witness ==
    /\ fn.op = "determine_starting_difficulty"
    /\ fn.recent_notes.note_count = 50
    /\ fn.recent_notes.by_priority[1] + fn.recent_notes.by_priority[2] = 4
    /\ fn.recent_notes.fluency = 8
    /\ fn.result = "advanced"

\* The kind each raw kind string names, whatever its letter case and the
\* blanks around it; strings naming no kind are not in the domain.
NamedKind ==
    [raw \in {"vocab", "VOCAB", "Vocab", " vocab "} |-> "VOCAB"]
    @@ [raw \in {"vocabulary"} |-> "VOCABULARY"]
    @@ [raw \in {"grammar", "Grammar", "GRAMMAR"} |-> "GRAMMAR"]
    @@ [raw \in {"pronunciation"} |-> "PRONUNCIATION"]
    @@ [raw \in {"fluency", "Fluency"} |-> "FLUENCY"]
    @@ [raw \in {"topic_mention", "Topic_Mention"} |-> "TOPIC_MENTION"]
    @@ [raw \in {"cluster"} |-> "CLUSTER"]

\* C16: save_learning_note persists kind VOCAB for the raw kind "vocab" in
\* any letter case, the named kind for every other recognized kind name in
\* any letter case, and CLUSTER for every unrecognized or absent kind; the
\* kind string never makes it fail.
C16_NoteKindNormalised ==
    fn.op = "save_learning_note" =>
        /\ ~fn.raised
        /\ fn.note.note_type =
              IF fn.raw_type \in DOMAIN NamedKind THEN NamedKind[fn.raw_type]
              ELSE "CLUSTER"

\* "Vocab" was saved as VOCAB.
C16_Witness ==
    /\ fn.op = "save_learning_note"
    /\ fn.raw_type = "Vocab"
    /\ fn.note.note_type = "VOCAB"

\* Two texts are the same up to letter case and surrounding blanks.
SameText(a, b) ==
    \E group \in {{"", "  "}, {"hola", "Hola", " Hola ", "HOLA"}, {"hello"}} :
        a \in group /\ b \in group

\* C17: in translate_text with an API key configured and a text that is not
\* blank, if the first model output equals the input case-insensitively
\* then exactly one retry, with the stricter instruction, follows the first
\* request; if the retry's output differs from the input it is the value
\* returned; no call makes more than two model requests; and the value
\* returned as the model's translation never equals the input.
C17_OneStrictRetryOnUntranslatedOutput ==
    (fn.op = "translate_text" /\ fn.api_key /\ ~SameText(fn.text, "")) =>
        /\ (fn.first # Raises /\ SameText(fn.first, fn.text))
              => /\ fn.out.requests = <<FALSE, TRUE>>
                 /\ (fn.second # Raises /\ ~SameText(fn.second, fn.text))
                       => /\ ~fn.out.raised
                          /\ fn.out.via = "model"
                          /\ fn.out.result = fn.second
        /\ Len(fn.out.requests) <= 2
        /\ fn.out.via = "model" => ~SameText(fn.out.result, fn.text)

\* The model echoed " Hola " as "HOLA" and answered the strict retry with
\* "hello", which was returned.
C17_Witness ==
    /\ fn.op = "translate_text" /\ fn.api_key
    /\ fn.text = " Hola " /\ fn.first = "HOLA" /\ fn.second = "hello"
    /\ fn.out.requests = <<FALSE, TRUE>>
    /\ fn.out.via = "model" /\ fn.out.result = "hello"

\* C18: when a relay loop has failed with an exception, start() raises it
\* again once the other loop is cancelled, and voice_session answers with
\* the error frame and the teardown of the session.
C18_LoopErrorReraisedToHandler ==
    (started # "running" /\ caught # {}) => started = "error"

\* C19: a cache operation that raises during a live session does not stop a
\* relay loop, and the event being handled is still relayed to the learner.
C19_CacheFailureKeepsLoopsRunning ==
    last_relay.cache_raised =>
        /\ ~last_relay.stopped
        /\ last_relay.kind = "user_transcript" => last_relay.relayed

C21_BufferInOrderReceived ==
    /\ \A i \in 1..Len(turn_buffer) : turn_buffer[i].role = received[turn_buffer[i].event]
    /\ \A i, j \in 1..Len(turn_buffer) : i < j => turn_buffer[i].event < turn_buffer[j].event

\* Lines of both roles were appended behind the line of a registration that
\* is still suspended in its cluster analysis.
C21_Witness ==
    \E n \in awaiting :
        /\ \E i \in 1..Len(turn_buffer) : turn_buffer[i].event > n /\ turn_buffer[i].role = "Learner"
        /\ \E i \in 1..Len(turn_buffer) : turn_buffer[i].event > n /\ turn_buffer[i].role = "Tutor"

\* C22: a remote call that fails leaves the failure recorded and the
\* cooldown window open; an operation that starts inside the window makes no
\* remote call; an operation that starts once the window is over makes one;
\* and an operation whose remote calls all returned leaves neither a
\* recorded failure nor a window.
C22_CooldownAfterRemoteFailure ==
    /\ last_memory.failures > 0 =>
          /\ memory.last_remote_error # None
          /\ memory.disabled_until = memory.clock + memory.cooldown
    /\ last_memory.cooling => last_memory.attempts = 0
    /\ (last_memory.expired /\ last_memory.op \notin {"tick", "__init__"}) =>
          last_memory.attempts > 0
    /\ (last_memory.attempts > 0 /\ last_memory.failures = 0) =>
          /\ memory.last_remote_error = None
          /\ memory.disabled_until = NoTime

\* The first operation after a window that a failure opened has called the
\* platform, the call returned, and failure and window are cleared.
C22_Witness ==
    /\ last_memory.expired /\ last_memory.attempts > 0 /\ last_memory.failures = 0
    /\ memory.clock > 0
    /\ memory.last_remote_error = None /\ memory.disabled_until = NoTime

\* C23: in strict mode no operation reads or writes the in-process mock
\* store, and start_session, put_turn_memory and end_session raise whenever
\* a remote call of theirs failed or the platform was not to be called.
C23_StrictModeRaisesAndNeverMocks ==
    memory.strict =>
        /\ ~last_memory.mock_read /\ ~last_memory.mock_written
        /\ memory.mock = NoMemory.mock
        /\ (/\ last_memory.op \in {"start_session", "put_turn_memory", "end_session"}
            /\ (last_memory.failures > 0 \/ last_memory.unavailable))
              => last_memory.raised

\* C24: whatever the interleaving of translate() and initialize() calls, at
\* most one load of the translation model is running, no load runs once
\* the model is present, and at most one load ever succeeds.
C24_SingleFlightModelLoad ==
    /\ Cardinality(Loading) <= 1
    /\ opus.model => Loading = {}
    /\ opus.succeeded <= 1

\* After a load that failed, one caller is loading while a translate() and
\* an initialize() call wait for the lock.
C24_Witness ==
    /\ opus.failed > 0
    /\ \E a, b, c \in Callers3 :
          /\ callers[a].pc = "loading"
          /\ callers[b] = [kind |-> "translate", pc |-> "acquire"]
          /\ callers[c] = [kind |-> "initialize", pc |-> "acquire"]

\* C25: when the PostgreSQL bootstrap has ended, every one of its statements
\* has been executed, whichever of them failed, and each failure has left
\* one warning.
C25_FailedStepDoesNotBlockLaterSteps ==
    bootstrap.pc = "done" =>
        /\ bootstrap.attempted = Statements
        /\ bootstrap.warnings = Cardinality(bootstrap.failed)

\* C26: for a difficulty without a configured agent identifier, get_agent
\* returns the identifier of the intermediate band when that one is
\* configured, and the empty identifier otherwise.
C26_FallsBackToIntermediateAgent ==
    (/\ fn.op = "get_agent"
     /\ Get(fn.agents, fn.difficulty, Unconfigured) = Unconfigured)
        => fn.agent_id = fn.agents["intermediate"]

\* The label the contract gives to a priority.
SeverityOf(priority) ==
    IF priority <= 1 THEN "high" ELSE IF priority = 2 THEN "medium" ELSE "low"

\* C27 as stated: the severity is high for priority at most 1, medium for 2
\* and low otherwise, and a guidance_nudge of at most 80 characters is sent
\* to the learner exactly when the severity is high or medium.
C27_NudgeExactlyOnHighOrMedium ==
    fn.op = "_handle_guidance" =>
        /\ fn.severity = SeverityOf(fn.analysis.priority)
        /\ fn.nudged <=> fn.severity \in {"high", "medium"}
        /\ fn.nudged => fn.tip <= TIP_LENGTH
        /\ fn.directive

\* C27 amended: the same, the nudge being sent exactly when the severity is
\* high or medium and the instruction is not blank.
C27_NudgeOnHighOrMediumWithText ==
    fn.op = "_handle_guidance" =>
        /\ fn.severity = SeverityOf(fn.analysis.priority)
        /\ fn.nudged <=> (/\ fn.severity \in {"high", "medium"}
                          /\ fn.analysis.guidance.stripped > 0)
        /\ fn.nudged => fn.tip > 0 /\ fn.tip <= TIP_LENGTH
        /\ fn.directive

\* A medium guidance longer than a tip was cut to 80 characters and sent.
C27_Witness ==
    /\ fn.op = "_handle_guidance" /\ fn.severity = "medium"
    /\ fn.analysis.guidance.stripped > TIP_LENGTH
    /\ fn.nudged /\ fn.tip = TIP_LENGTH

\* The number a field of the container holds, least significant byte first.
Field(bytes, first, width) ==
    LET RECURSIVE value(_)
        value(i) == IF i > width THEN 0
                    ELSE bytes[first + i - 1] * (256 ^ (i - 1)) + value(i + 1)
    IN  value(1)

\* C28: the container made for a payload of L bytes is a header of 44 bytes
\* followed by the payload unchanged, and the header declares a RIFF chunk
\* size of 36 + L, a data chunk size of L, audio format 1, one channel, a
\* sample rate of 16000 and a byte rate of 32000.
C28_WavHeaderDeclaresPayload ==
    fn.op = "_pcm_base64_to_wav_base64" =>
        LET wav == b64decode(fn.wav_b64)
            L == Len(fn.pcm)
        IN  /\ Len(wav) = 44 + L
            /\ SubSeq(wav, 45, 44 + L) = fn.pcm
            /\ SubSeq(wav, 1, 4) = <<82, 73, 70, 70>>
            /\ Field(wav, 5, 4) = 36 + L
            /\ Field(wav, 41, 4) = L
            /\ Field(wav, 21, 2) = 1
            /\ Field(wav, 23, 2) = 1
            /\ Field(wav, 25, 4) = 16000
            /\ Field(wav, 29, 4) = 32000

\* A payload long enough for its sizes to fill a second byte was wrapped.
C28_Witness ==
    /\ fn.op = "_pcm_base64_to_wav_base64"
    /\ Len(fn.pcm) > 256
    /\ Len(fn.wav_b64) > 4 * ((44 + 256) \div 3)

\* C29: whenever one of the two relay loops of a bridge has terminated by
\* itself (normal close, error, or the learner's end message), the other
\* loop is cancelled: once start() is over, no loop is still running beside
\* a loop that has ended.
C29_OtherLoopCancelledOnceOneEnds ==
    (started # "running" /\ \E l \in Loops : loops[l] \in {"returned", "raised"})
        => \A l \in Loops : loops[l] # "running"

\* C30: while the bridge is active, a keepalive timer is pending right after
\* the to-loop has handled an audio chunk of the learner.
C30_KeepalivePendingAfterLearnerAudio ==
    (last_relay.kind = "audio" /\ is_active) => keepalive_task = "pending"

\* An exchange with a learner text and a tutor text, both non-empty.
Complete(exchange) ==
    exchange.user_text # EmptyText /\ exchange.agent_text # EmptyText
CompleteIn(exchanges) ==
    Cardinality({i \in 1..Len(exchanges) : Complete(exchanges[i])})

\* C31: every cluster passed to the cluster analysis consists of exactly
\* CLUSTER_SIZE complete exchanges, and a tutor turn whose window of the
\* last 2 * CLUSTER_SIZE lines yields fewer complete exchanges is not
\* analysed.
C31_ClusterOfCompleteExchanges ==
    (last_turn.op = "agent" /\ last_turn.registered)
        => /\ last_turn.analysed =>
                /\ Len(last_turn.cluster) = CLUSTER_SIZE
                /\ \A i \in 1..Len(last_turn.cluster) : Complete(last_turn.cluster[i])
           /\ CompleteIn(WindowExchanges) < CLUSTER_SIZE => ~last_turn.analysed

\* The platform has received a graduation update on this bridge.
GraduatedBefore == \E i \in 1..Len(upstream) : upstream[i] = "graduated"

\* C32: with the default thresholds, once graduation has cleared the
\* activation flag, a struggling learner utterance handled later in the same
\* session activates soft-beginner mode again.
C32_StruggleAfterGraduationReactivates ==
    (/\ last_event.kind = "user"
     /\ ~last_event.was_active
     /\ GraduatedBefore
     /\ _detect_early_struggle(1, local_transcript[Len(local_transcript)].content))
        => _soft_beginner_activated

C34_ClearedStateStaysAbsent ==
    state_cleared => /\ turn_buffer = <<>>
                     /\ agent_turns = 0
                     /\ insights = <<>>

\* C38: every stored adaptive recommendation is tagged with the turn count
\* that triggered its analysis, a positive multiple of CLUSTER_SIZE.
C38_RecommendationTaggedWithTriggeringTurn ==
    \A i \in 1..Len(recommendations) :
        /\ recommendations[i].turn = recommendations[i].trigger
        /\ recommendations[i].turn > 0
        /\ recommendations[i].turn % CLUSTER_SIZE = 0

\* C35: should_preactivate_soft_beginner answers true only for a user whose
\* early struggle was recorded in at least 3 distinct conversations.
C35_PreactivatedOnlyAfterThreeSessions ==
    (fn.op = "should_preactivate_soft_beginner" /\ fn.result)
        => Cardinality({fn.entries[i] : i \in 1..Len(fn.entries)}) >= PatternNeeded

\* C36: when an import_article call has failed, at whichever step, the
\* active rows of weekly_articles are the rows that were active before the
\* call.
C36_FailedImportKeepsActiveArticle ==
    (imported.request # 0 /\ ~imported.ok)
        => ActiveArticles(weekly_articles) = imported.before

\* C37: for every (article, user) pair the table holds at most one
\* UserArticleAnalysis row and at most one generation has been requested,
\* overlapping get_or_create_analysis calls included.
C37_OneAnalysisPerPair ==
    \A p \in Pairs :
        /\ Cardinality(Existing(user_article_analyses, p[1], p[2])) <= 1
        /\ generations[p] <= 1

\* C39: when a Gemini cluster analysis has failed (the request raised, the
\* response was no JSON or lacked required fields) and its result comes
\* from the Cerebras fallback or the mock, the signature the service holds
\* for the user, as get_user_thought_signature reads it and in the cache,
\* is the one it held before the call.
C39_FailedAnalysisKeepsSignature ==
    (fn.op = "analyze_turn_cluster" /\ fn.result.failed) =>
        /\ fn.result.after.durable = fn.before.durable
        /\ get_user_thought_signature(fn.result.after)
              = get_user_thought_signature(fn.before)

====
